---- MODULE Spec2Model ----
(***************************************************************************)
(* The generation-validate-execute pipeline of codeagent:                  *)
(*   RopeScriptGenerator  (src/src/codeagent/dspy_modules/                 *)
(*                         rope_script_generator.py)                       *)
(*   CodeModifierAgent    (src/src/codeagent/code_modifier.py)             *)
(*                                                                         *)
(* Text is modelled as a sequence of pieces: a Python string is the        *)
(* concatenation of its pieces, whitespace pieces included, so that the    *)
(* substring tests, the import regular expression and the fence clean-up   *)
(* of the source are computed on the text and not assumed.                 *)
(***************************************************************************)
EXTENDS Integers, Sequences, FiniteSets, TLC

VARIABLES
    pc,             \* position of the running call
    op,             \* the public operation that is running
    script,         \* the script text held by the running call
    file_path,      \* file_path argument
    project_path,   \* project_path argument
    cwd,            \* the process's current working directory
    installed,      \* the rope modules that can be imported in this process
    dirs,           \* transient directories on disk
    response,       \* the provider's response to the running call
    lm_calls,       \* provider calls made so far by the running call
    written,        \* files the entry points of the running call have written
    files,          \* regular files on disk: path -> content
    temp_file_path, \* local temp_file_path of _execute_rope_script
    module,         \* local module of _execute_rope_script (its attributes)
    rel_file_path,  \* local rel_file_path of _execute_rope_script
    invoked,        \* entry-point invocations made so far by the running call
    raised,         \* the exception e bound by the except clause
    pending,        \* what the try statement is about to deliver after finally
    outcome,        \* what the caller of the operation observed
    environ,        \* os.environ.get("CODEAGENT_MODEL"), None when unset
    DSPY_AVAILABLE, \* whether import dspy succeeded in this process
    settings_lm,    \* dspy.settings.lm, the process-wide provider binding
    providers,      \* the models dspy.LM was called with, in order
    completions,    \* the models the provider calls so far went to
    ctor,           \* the constructors running, one frame per thread
    file_content,   \* file_content argument of the generator's __call__
    instructions,   \* instructions argument of the generator's __call__
    prompt,         \* the prompt the generator built
    frames,         \* the _execute_rope_script calls running, one per thread
    creator         \* per transient file on disk, the thread whose mkstemp made it

\* the process-wide provider binding and what acts on it
binding == <<environ, DSPY_AVAILABLE, settings_lm, providers, completions, ctor>>

\* the generator's arguments and its prompt
prompting == <<file_content, instructions, prompt>>

\* calls of _execute_rope_script running side by side
threads == <<frames, creator>>

\* what a single pipeline call leaves alone
apart == <<binding, prompting, threads>>

\* what the pipeline of one caller works on
pipeline == <<pc, op, script, file_path, project_path, cwd, installed, dirs, response,
              lm_calls, written, files, temp_file_path, module, rel_file_path, invoked,
              raised, pending, outcome>>

vars == <<pipeline, apart>>

(***************************************************************************)
(* Text                                                                    *)
(***************************************************************************)
SP == " "
NL == "\n"
IND == "    "

IsWS(p) == p \in {SP, NL, IND}

\* needle in text, the in operator of Python strings
Contains(text, needle) ==
    \E i \in 0..(Len(text) - Len(needle)) :
        SubSeq(text, i + 1, i + Len(needle)) = needle

\* str.strip()
RECURSIVE LStrip(_)
LStrip(text) ==
    IF text # <<>> /\ IsWS(Head(text)) THEN LStrip(Tail(text)) ELSE text

RECURSIVE RStrip(_)
RStrip(text) ==
    IF text # <<>> /\ IsWS(text[Len(text)])
    THEN RStrip(SubSeq(text, 1, Len(text) - 1))
    ELSE text

Strip(text) == RStrip(LStrip(text))

\* the lines of a text (str.split on the newline piece)
RECURSIVE SplitLines(_)
SplitLines(text) ==
    IF \A i \in 1..Len(text) : text[i] # NL
    THEN <<text>>
    ELSE LET k == CHOOSE i \in 1..Len(text) :
                      text[i] = NL /\ \A j \in 1..(i - 1) : text[j] # NL
         IN <<SubSeq(text, 1, k - 1)>> \o SplitLines(SubSeq(text, k + 1, Len(text)))

\* "\n".join(lines)
RECURSIVE JoinLines(_)
JoinLines(lines) ==
    IF lines = <<>> THEN <<>>
    ELSE IF Len(lines) = 1 THEN lines[1]
    ELSE lines[1] \o <<NL>> \o JoinLines(Tail(lines))

(***************************************************************************)
(* Exceptions                                                              *)
(***************************************************************************)
\* an exception object: its class, str(e) as text, and the class of __cause__
Exc(t, m, c) == [type |-> t, msg |-> m, cause |-> c]

NoExc == Exc("None", <<>>, "None")

\* classes deriving from Exception; SystemExit and KeyboardInterrupt derive
\* from BaseException only
ExceptionClasses ==
    {"ValueError", "SyntaxError", "ImportError", "ModuleNotFoundError",
     "RuntimeError", "ResourceNotFoundError", "TypeError"}

BaseOnlyClasses == {"SystemExit", "KeyboardInterrupt"}

IsException(e) == e.type \in ExceptionClasses

\* Assert(condition, message): raises ValueError("Assertion failed: ...")
AssertFails(message) == Exc("ValueError", <<"Assertion failed: ">> \o message, "None")

(***************************************************************************)
(* RopeScriptGenerator: whitelist                                          *)
(***************************************************************************)
VALID_ROPE_MODULES ==
    {"rope.base.project", "rope.base.exceptions", "rope.base.change",
     "rope.base.codeanalyze", "rope.base.evaluate", "rope.base.fscommands",
     "rope.base.history", "rope.base.libutils", "rope.base.prefs",
     "rope.base.pycore", "rope.base.pynamesdef", "rope.base.pynames",
     "rope.base.pyobjectsdef", "rope.base.pyobjects", "rope.base.pyscopes",
     "rope.base.resourceobserver", "rope.base.resources", "rope.base.simplify",
     "rope.base.stdmods", "rope.base.taskhandle", "rope.base.worder",
     "rope.refactor.extract", "rope.refactor.inline",
     "rope.refactor.introduce_factory", "rope.refactor.method_object",
     "rope.refactor.move", "rope.refactor.occurrences", "rope.refactor.rename",
     "rope.refactor.restructure", "rope.refactor.usefunction",
     "rope.refactor.change_signature", "rope.contrib.codeassist",
     "rope.contrib.findit"}

\* pieces of the vocabulary that begin with "rope." and hold no whitespace
\* (what the group rope\.\S+ of the import regex can match)
RopeDotted == VALID_ROPE_MODULES \cup {"rope.base.ast", "rope.base.builtins"}

(***************************************************************************)
(* The script vocabulary: lines a provider may answer with                 *)
(***************************************************************************)
ImportProject == <<"from", SP, "rope.base.project", SP, "import", SP, "Project">>
ImportRename == <<"from", SP, "rope.refactor.rename", SP, "import", SP, "Rename">>
ImportFromBad == <<"from", SP, "rope.base.ast", SP, "import", SP, "walk">>
ImportPlainBad == <<"import", SP, "rope.base.builtins">>
DefChange == <<"def", SP, "change_function(", "project_path", ",", SP, "file_path", "):">>
DefWrongSig == <<"def", SP, "change_function(", "path", ",", SP, "name", "):">>
MkProject == <<IND, "project", SP, "=", SP, "Project(project_path)">>
GetResource == <<IND, "resource", SP, "=", SP, "project.get_resource(file_path)">>
BrokenLine == <<IND, "print(", "\"Hello\"">>
ReturnLine == <<IND, "return", SP, "resource.read()">>
DefRefactor == <<"def", SP, "refactor_code(", "project_path", ",", SP, "file_path", "):">>
ReturnLegacy == <<IND, "return", SP, "\"Modified code\"">>

\* the longest script of the vocabulary; every script drawn is a selection of
\* its lines, in this order
Corpus ==
    <<ImportProject, ImportRename, ImportFromBad, ImportPlainBad, DefChange,
      DefWrongSig, MkProject, GetResource, BrokenLine, ReturnLine, DefRefactor,
      ReturnLegacy>>

RECURSIVE SelectLines(_, _)
SelectLines(idx, i) ==
    IF i > Len(Corpus) THEN <<>>
    ELSE (IF i \in idx THEN <<Corpus[i]>> ELSE <<>>) \o SelectLines(idx, i + 1)

ScriptOf(idx) == JoinLines(SelectLines(idx, 1))

CorpusScripts == {ScriptOf(idx) : idx \in SUBSET (1..Len(Corpus))}

(***************************************************************************)
(* Python's compile() and module execution on the vocabulary               *)
(***************************************************************************)
ModuleNames == RopeDotted
Identifiers ==
    {"Project", "Rename", "walk", "project", "resource", "project_path",
     "file_path", "path", "name"}
StringLiterals == {"\"Modified code\"", "\"Hello\""}
Expressions ==
    {"Project(project_path)", "project.get_resource(file_path)", "resource.read()"}
        \cup StringLiterals
FuncOpen == {"change_function(", "refactor_code("}
FuncName(p) == IF p = "change_function(" THEN "change_function" ELSE "refactor_code"

IsImportFrom(l) ==
    /\ Len(l) = 7
    /\ l[1] = "from" /\ l[2] = SP /\ l[3] \in ModuleNames /\ l[4] = SP
    /\ l[5] = "import" /\ l[6] = SP /\ l[7] \in Identifiers
IsImport(l) == Len(l) = 3 /\ l[1] = "import" /\ l[2] = SP /\ l[3] \in ModuleNames
IsDef(l) ==
    /\ Len(l) = 8
    /\ l[1] = "def" /\ l[2] = SP /\ l[3] \in FuncOpen /\ l[4] \in Identifiers
    /\ l[5] = "," /\ l[6] = SP /\ l[7] \in Identifiers /\ l[8] = "):"
IsAssign(l) ==
    /\ Len(l) = 5
    /\ l[1] \in Identifiers /\ l[2] = SP /\ l[3] = "=" /\ l[4] = SP
    /\ l[5] \in Expressions
IsReturn(l) == Len(l) = 3 /\ l[1] = "return" /\ l[2] = SP /\ l[3] \in Expressions
IsSimpleStmt(l) == IsImportFrom(l) \/ IsImport(l) \/ IsAssign(l)

IsBlank(l) == \A i \in 1..Len(l) : IsWS(l[i])

\* a line that is a comment from its first column on
IsComment(l) == l # <<>> /\ l[1] = "#"
IsIndented(l) == l # <<>> /\ l[1] = IND

\* the block structure: a def header needs an indented body, an indented line
\* needs a header or a body line before it, return is legal in a body only
RECURSIVE ParseFrom(_, _)
ParseFrom(lines, prev) ==
    IF lines = <<>> THEN prev # "header"
    ELSE LET l == Head(lines) IN
         IF IsBlank(l) \/ IsComment(l) THEN ParseFrom(Tail(lines), prev)
         ELSE IF IsIndented(l)
         THEN /\ prev \in {"header", "body"}
              /\ IsSimpleStmt(Tail(l)) \/ IsReturn(Tail(l))
              /\ ParseFrom(Tail(lines), "body")
         ELSE /\ prev # "header"
              /\ IsSimpleStmt(l) \/ IsDef(l)
              /\ ParseFrom(Tail(lines), IF IsDef(l) THEN "header" ELSE "top")

\* compile(script, "<string>", "exec"): the SyntaxError raised, or NoExc
compile(text) ==
    IF ParseFrom(SplitLines(text), "top") THEN NoExc
    ELSE Exc("SyntaxError", <<"invalid syntax">>, "None")

(***************************************************************************)
(* RopeScriptGenerator._validate_script                                    *)
(***************************************************************************)
PyNone == [t |-> "NoneType", v |-> <<>>]
PyStr(text) == [t |-> "str", v |-> text]

\* how a call ended, as its caller sees it
Returned(value) == [kind |-> "return", value |-> value, exc |-> NoExc]
Raised(e) == [kind |-> "raise", value |-> PyNone, exc |-> e]
NoOutcome == [kind |-> "none", value |-> PyNone, exc |-> NoExc]

NeedleDef == <<"def", SP, "change_function(">>
NeedleSignature ==
    <<"def", SP, "change_function(", "project_path", ",", SP, "file_path", "):">>
NeedleImport == <<"from", SP, "rope.base.project", SP, "import", SP, "Project">>
NeedleProject == <<"project", SP, "=", SP, "Project(project_path)">>
NeedleResource == <<"project.get_resource(file_path)">>
NeedleReturn == <<"return", SP>>

MsgDef == <<"Script must define a 'change_function' function">>
MsgSignature == <<"change_function must accept project_path and file_path parameters">>
MsgImport == <<"Script must import 'Project' from 'rope.base.project'">>
MsgProject == <<"Script must create a Rope project using the project_path parameter">>
MsgResource ==
    <<"Script must get the file resource using project.get_resource(file_path)">>
MsgReturn == <<"Script must return the modified content">>
MsgInvalidImport(m) ==
    <<"Invalid Rope module import: ", m,
      ". This module may not exist in the installed version of Rope.">>

RECURSIVE SkipWS(_, _)
SkipWS(text, i) ==
    IF i <= Len(text) /\ IsWS(text[i]) THEN SkipWS(text, i + 1) ELSE i

\* re.compile(r"from\s+(rope\.\S+)\s+import") matching at piece i
ImportMatchAt(text, i) ==
    /\ text[i] = "from"
    /\ i + 1 <= Len(text) /\ IsWS(text[i + 1])
    /\ LET j == SkipWS(text, i + 1) IN
           /\ j <= Len(text) /\ text[j] \in RopeDotted
           /\ j + 1 <= Len(text) /\ IsWS(text[j + 1])
           /\ LET k == SkipWS(text, j + 1) IN
                  k <= Len(text) /\ text[k] = "import"

\* import_regex.finditer(script): match.group(1) of each match, in order
RECURSIVE import_matches(_, _)
import_matches(text, i) ==
    IF i > Len(text) THEN <<>>
    ELSE (IF ImportMatchAt(text, i) THEN <<text[SkipWS(text, i + 1)]>> ELSE <<>>)
             \o import_matches(text, i + 1)

\* the for loop over the matches: the first module outside the whitelist
RECURSIVE first_invalid_import(_)
first_invalid_import(mods) ==
    IF mods = <<>> THEN "None"
    ELSE IF Head(mods) \notin VALID_ROPE_MODULES THEN Head(mods)
    ELSE first_invalid_import(Tail(mods))

\* a plausible slip: the import rule tested before the entry-point rules
validate_checks_import_first(text) ==
    IF ~Contains(text, NeedleImport) THEN AssertFails(MsgImport)
    ELSE IF ~Contains(text, NeedleDef) THEN AssertFails(MsgDef)
    ELSE IF ~Contains(text, NeedleSignature) THEN AssertFails(MsgSignature)
    ELSE IF ~Contains(text, NeedleProject) THEN AssertFails(MsgProject)
    ELSE IF ~Contains(text, NeedleResource) THEN AssertFails(MsgResource)
    ELSE IF ~Contains(text, NeedleReturn) THEN AssertFails(MsgReturn)
    ELSE LET bad == first_invalid_import(import_matches(text, 1)) IN
         IF bad # "None" THEN AssertFails(MsgInvalidImport(bad))
         ELSE compile(text)

\* the body of the try statement: the exception it raises, or NoExc
validate_checks(text) ==
    IF ~Contains(text, NeedleDef) THEN AssertFails(MsgDef)
    ELSE IF ~Contains(text, NeedleSignature) THEN AssertFails(MsgSignature)
    ELSE IF ~Contains(text, NeedleImport) THEN AssertFails(MsgImport)
    ELSE IF ~Contains(text, NeedleProject) THEN AssertFails(MsgProject)
    ELSE IF ~Contains(text, NeedleResource) THEN AssertFails(MsgResource)
    ELSE IF ~Contains(text, NeedleReturn) THEN AssertFails(MsgReturn)
    ELSE LET bad == first_invalid_import(import_matches(text, 1)) IN
         IF bad # "None" THEN AssertFails(MsgInvalidImport(bad))
         ELSE compile(text)

\* a plausible slip: one handler for every exception of the try body
validate_one_handler(text) ==
    LET e == validate_checks(text) IN
    IF IsException(e)
    THEN Raised(Exc("ValueError", <<"Script validation failed: ">> \o e.msg, e.type))
    ELSE Returned(PyNone)

\* the try statement with its two except clauses
_validate_script(text) ==
    LET e == validate_checks(text) IN
    IF e.type = "SyntaxError"
    THEN Raised(Exc("ValueError", <<"Script has a syntax error: ">> \o e.msg, e.type))
    ELSE IF IsException(e)
    THEN Raised(Exc("ValueError", <<"Script validation failed: ">> \o e.msg, e.type))
    ELSE Returned(PyNone)

(***************************************************************************)
(* Paths: a path string is the text of its components and "/" pieces       *)
(***************************************************************************)
SEP == "/"

isabs(path) == path # <<>> /\ path[1] = SEP

\* the components of a path string, empty components dropped
RECURSIVE Components(_)
Components(path) ==
    IF path = <<>> THEN <<>>
    ELSE IF Head(path) = SEP THEN Components(Tail(path))
    ELSE <<Head(path)>> \o Components(Tail(path))

RECURSIVE JoinComponents(_)
JoinComponents(parts) ==
    IF parts = <<>> THEN <<>>
    ELSE IF Len(parts) = 1 THEN parts
    ELSE <<Head(parts), SEP>> \o JoinComponents(Tail(parts))

RECURSIVE DropDots(_)
DropDots(parts) ==
    IF parts = <<>> THEN <<>>
    ELSE IF Head(parts) = "." THEN DropDots(Tail(parts))
    ELSE <<Head(parts)>> \o DropDots(Tail(parts))

\* pathlib.Path(path): "." components and repeated or trailing "/" vanish,
\* ".." stays
Path(path) == [abs |-> isabs(path), parts |-> DropDots(Components(path))]

\* str(Path)
PathStr(p) ==
    IF p.abs THEN <<SEP>> \o JoinComponents(p.parts)
    ELSE IF p.parts = <<>> THEN <<".">>
    ELSE JoinComponents(p.parts)

IsPrefix(a, b) == Len(a) <= Len(b) /\ SubSeq(b, 1, Len(a)) = a

\* PurePath.relative_to succeeds (no ValueError)
relative_to_ok(p, other) == p.abs = other.abs /\ IsPrefix(other.parts, p.parts)

relative_to(p, other) ==
    [abs |-> FALSE, parts |-> SubSeq(p.parts, Len(other.parts) + 1, Len(p.parts))]

\* posixpath.normpath on components: "." dropped, ".." folds its parent, and is
\* dropped at the root
RECURSIVE NormParts(_, _, _)
NormParts(abs, parts, acc) ==
    IF parts = <<>> THEN acc
    ELSE LET c == Head(parts) IN
         IF c = "." THEN NormParts(abs, Tail(parts), acc)
         ELSE IF c # ".." \/ (~abs /\ acc = <<>>)
                          \/ (acc # <<>> /\ acc[Len(acc)] = "..")
         THEN NormParts(abs, Tail(parts), Append(acc, c))
         ELSE IF acc # <<>>
         THEN NormParts(abs, Tail(parts), SubSeq(acc, 1, Len(acc) - 1))
         ELSE NormParts(abs, Tail(parts), acc)

\* os.path.abspath(path) in working directory wd: the components of the result
abspath_parts(path, wd) ==
    IF isabs(path) THEN NormParts(TRUE, Components(path), <<>>)
    ELSE NormParts(TRUE, Components(wd) \o Components(path), <<>>)

abspath(path, wd) == <<SEP>> \o JoinComponents(abspath_parts(path, wd))

RECURSIVE CommonLen(_, _)
CommonLen(a, b) ==
    IF a = <<>> \/ b = <<>> \/ Head(a) # Head(b) THEN 0
    ELSE 1 + CommonLen(Tail(a), Tail(b))

\* os.path.relpath(path, start) for a non-empty path
relpath(path, start, wd) ==
    LET start_list == abspath_parts(start, wd)
        path_list == abspath_parts(path, wd)
        i == CommonLen(start_list, path_list)
        rel_list == [k \in 1..(Len(start_list) - i) |-> ".."]
                        \o SubSeq(path_list, i + 1, Len(path_list))
    IN IF rel_list = <<>> THEN <<".">> ELSE JoinComponents(rel_list)

\* os.path.dirname
RECURSIVE RStripSep(_)
RStripSep(path) ==
    IF path # <<>> /\ path[Len(path)] = SEP
    THEN RStripSep(SubSeq(path, 1, Len(path) - 1))
    ELSE path

RECURSIVE UpToLastSep(_)
UpToLastSep(path) ==
    IF path = <<>> \/ path[Len(path)] = SEP THEN path
    ELSE UpToLastSep(SubSeq(path, 1, Len(path) - 1))

dirname(path) ==
    LET head == UpToLastSep(path) IN
    IF head # <<>> /\ RStripSep(head) # <<>> THEN RStripSep(head) ELSE head

\* os.path.join(a, b) for a relative b
join(a, b) ==
    IF a = <<>> \/ a[Len(a)] = SEP THEN a \o b ELSE a \o <<SEP>> \o b

(***************************************************************************)
(* CodeModifierAgent._get_relative_path                                    *)
(***************************************************************************)
\* a plausible slip: the fallback taken for every path
get_relative_path_always_relpath(fp, pp, wd) ==
    IF fp = <<>> THEN Raised(Exc("ValueError", <<"no path specified">>, "None"))
    ELSE Returned(PyStr(relpath(fp, pp, wd)))

_get_relative_path(fp, pp, wd) ==
    IF relative_to_ok(Path(fp), Path(pp))
    THEN Returned(PyStr(PathStr(relative_to(Path(fp), Path(pp)))))
    ELSE IF fp = <<>>
    THEN Raised(Exc("ValueError", <<"no path specified">>, "None"))
    ELSE Returned(PyStr(relpath(fp, pp, wd)))

(***************************************************************************)
(* RopeScriptGenerator.__call__: response to text, clean-up, validation    *)
(***************************************************************************)
\* the markdown fence of three backquotes, bare and with the python marker
FencePython == "[fence]python"
Fence == "[fence]"

PyList(items) == [t |-> "list", v |-> items]

\* values that are neither str nor list: v holds the text str() gives
PyInt(digits) == [t |-> "int", v |-> <<digits>>]
PyBool(b) == [t |-> "bool", v |-> <<IF b THEN "True" ELSE "False">>]
PyObject(text) == [t |-> "object", v |-> text]

\* str(x) for a value that is not a list
str(x) == IF x.t = "NoneType" THEN <<"None">> ELSE x.v

\* bool(x), the truth value an if or a conditional expression tests
bool(x) ==
    IF x.t = "NoneType" THEN FALSE
    ELSE IF x.t = "int" THEN x.v # <<"0">>
    ELSE IF x.t = "bool" THEN x.v = <<"True">>
    ELSE IF x.t \in {"str", "list"} THEN x.v # <<>>
    ELSE TRUE

\* a plausible slip: str() applied to a list as to any other value
to_str_repr(resp) ==
    IF resp.t = "list" THEN <<"[">> \o JoinLines(resp.v) \o <<"]">>
    ELSE IF resp.t = "str" THEN resp.v
    ELSE str(resp)

\* "ensure the result is a string"
to_str(resp) ==
    IF resp.t = "list" THEN JoinLines(resp.v)
    ELSE IF resp.t = "str" THEN resp.v
    ELSE str(resp)

\* re.sub(fence + r"\s*", "", text) removes piece i of the text: it is the
\* fence, or whitespace in the run of whitespace that follows a fence
Removed(text, fence, i) ==
    \/ text[i] = fence
    \/ /\ IsWS(text[i])
       /\ \E j \in 1..(i - 1) :
              text[j] = fence /\ \A k \in (j + 1)..i : IsWS(text[k])

\* the pieces of the text at the indexes in keep, in their order
Subsequence(text, keep) ==
    [n \in 1..Cardinality(keep) |->
        text[CHOOSE i \in keep : Cardinality({j \in keep : j <= i}) = n]]

RemoveFence(text, fence) ==
    Subsequence(text, {i \in 1..Len(text) : ~Removed(text, fence, i)})

\* a plausible slip: the fences are removed and the ends are left as they are
clean_script_no_strip(text) == RemoveFence(RemoveFence(text, FencePython), Fence)

_clean_script(text) == Strip(RemoveFence(RemoveFence(text, FencePython), Fence))

\* a plausible slip: the cleaned script is returned without being validated
generate_script_unvalidated(resp) == Returned(PyStr(_clean_script(to_str(resp))))

\* _generate_refactoring_script / _generate_new_file_script after the provider
\* call: the script returned, or the validation error raised
generate_script(resp) ==
    LET text == _clean_script(to_str(resp))
        v == _validate_script(text)
    IN IF v.kind = "raise" THEN v ELSE Returned(PyStr(text))

(***************************************************************************)
(* codeagent/dspy_modules.py: RopeScriptGenerator._extract_script_from_    *)
(* response, the normalizer of the earlier generator                       *)
(***************************************************************************)
\* the fence of three backquotes begins the python fence too: the pieces Fence
\* and FencePython both hold it
\* index of the first piece of text that is in S, 0 if there is none
FirstIn(text, S) ==
    IF \A i \in 1..Len(text) : text[i] \notin S THEN 0
    ELSE CHOOSE i \in 1..Len(text) :
             text[i] \in S /\ \A j \in 1..(i - 1) : text[j] \notin S

\* text.split(fence + "python", 1)[1]
AfterFencePython(text) ==
    SubSeq(text, FirstIn(text, {FencePython}) + 1, Len(text))

\* text.split(fence, 1)[1]: what follows the first three backquotes, the word
\* python included when they begin a python fence
AfterFence(text) ==
    LET i == FirstIn(text, {Fence, FencePython}) IN
    (IF text[i] = FencePython THEN <<"python">> ELSE <<>>)
        \o SubSeq(text, i + 1, Len(text))

\* text.split(fence, 1)[0]
BeforeFence(text) ==
    LET i == FirstIn(text, {Fence, FencePython}) IN
    IF i = 0 THEN text ELSE SubSeq(text, 1, i - 1)

_extract_script_from_response(resp) ==
    IF resp.t = "list"
    THEN (IF bool(resp) THEN resp.v[1] ELSE <<>>)
    ELSE IF resp.t = "str"
    THEN (IF /\ FirstIn(resp.v, {FencePython}) # 0
             /\ FirstIn(AfterFencePython(resp.v), {Fence, FencePython}) # 0
          THEN Strip(BeforeFence(AfterFencePython(resp.v)))
          ELSE IF FirstIn(resp.v, {Fence, FencePython}) # 0
          THEN Strip(BeforeFence(AfterFence(resp.v)))
          ELSE resp.v)
    ELSE (IF bool(resp) THEN str(resp) ELSE <<>>)

(***************************************************************************)
(* CodeModifierAgent._load_module_from_file                                *)
(***************************************************************************)
LoadResult(e, attrs) == [exc |-> e, attrs |-> attrs]

\* the module's top-level statements run in order; a def or an import binds a
\* name, an import of a module that is not installed raises
RECURSIVE ExecTop(_, _, _)
ExecTop(lines, mods, attrs) ==
    IF lines = <<>> THEN LoadResult(NoExc, attrs)
    ELSE LET l == Head(lines) IN
         IF IsBlank(l) \/ IsComment(l) \/ IsIndented(l)
         THEN ExecTop(Tail(lines), mods, attrs)
         ELSE IF IsImportFrom(l) \/ IsImport(l)
         THEN IF l[3] \notin mods
              THEN LoadResult(Exc("ModuleNotFoundError",
                                  <<"No module named '", l[3], "'">>, "None"), attrs)
              ELSE ExecTop(Tail(lines), mods,
                           attrs \cup {IF IsImportFrom(l) THEN l[7] ELSE "rope"})
         ELSE IF IsDef(l)
         THEN ExecTop(Tail(lines), mods, attrs \cup {FuncName(l[3])})
         ELSE IF l[5] \in StringLiterals
         THEN ExecTop(Tail(lines), mods, attrs \cup {l[1]})
         ELSE LoadResult(Exc("NameError", <<"name is not defined">>, "None"), attrs)

\* spec.loader.exec_module(module): compile the file's content, then run it
exec_module(text, mods) ==
    IF compile(text) # NoExc THEN LoadResult(compile(text), {})
    ELSE ExecTop(SplitLines(text), mods, {})

\* a path whose suffix importlib has a loader for
PySuffix(path) ==
    path # <<>> /\ path[Len(path)] \in {"tmpa.py", "tmpb.py", "tmpc.py", "tmpd.py"}

_load_module_from_file(path, fs, mods) ==
    IF ~PySuffix(path)
    THEN LoadResult(Exc("ImportError", <<"Could not load module from ">> \o path,
                        "None"), {})
    ELSE exec_module(fs[path], mods)

(***************************************************************************)
(* CodeModifierAgent._run_script_function                                  *)
(***************************************************************************)
EntryNames == {"change_function", "refactor_code"}

\* one call of an entry point: its name, its arguments, how it ended
Invocation(name, pp, fp, result) == [name |-> name, args |-> <<pp, fp>>, result |-> result]

RunResult(calls, result) == [calls |-> calls, result |-> result]

MsgNoEntryPoint ==
    <<"Rope script does not contain a change_function or refactor_code function">>

\* a plausible slip: the legacy name looked up first
run_script_function_legacy_first(attrs, pp, fp, behaviour) ==
    IF "refactor_code" \in attrs
    THEN RunResult(<<Invocation("refactor_code", pp, fp, behaviour["refactor_code"])>>,
                   behaviour["refactor_code"])
    ELSE IF "change_function" \in attrs
    THEN RunResult(<<Invocation("change_function", pp, fp, behaviour["change_function"])>>,
                   behaviour["change_function"])
    ELSE RunResult(<<>>, Raised(Exc("ValueError", MsgNoEntryPoint, "None")))

\* a plausible slip: the entry point is called and its result dropped
run_script_function_drops_result(attrs, pp, fp, behaviour) ==
    LET dropped(r) == IF r.kind = "return" THEN Returned(PyNone) ELSE r IN
    IF "change_function" \in attrs
    THEN RunResult(<<Invocation("change_function", pp, fp, behaviour["change_function"])>>,
                   dropped(behaviour["change_function"]))
    ELSE IF "refactor_code" \in attrs
    THEN RunResult(<<Invocation("refactor_code", pp, fp, behaviour["refactor_code"])>>,
                   dropped(behaviour["refactor_code"]))
    ELSE RunResult(<<>>, Raised(Exc("ValueError", MsgNoEntryPoint, "None")))

\* a plausible slip: the fall-through returns None instead of raising
run_script_function_no_raise(attrs, pp, fp, behaviour) ==
    IF "change_function" \in attrs
    THEN RunResult(<<Invocation("change_function", pp, fp, behaviour["change_function"])>>,
                   behaviour["change_function"])
    ELSE IF "refactor_code" \in attrs
    THEN RunResult(<<Invocation("refactor_code", pp, fp, behaviour["refactor_code"])>>,
                   behaviour["refactor_code"])
    ELSE RunResult(<<>>, Returned(PyNone))

\* attrs: what hasattr sees on the module; behaviour: how each entry point
\* ends when it is called
_run_script_function(attrs, pp, fp, behaviour) ==
    IF "change_function" \in attrs
    THEN RunResult(<<Invocation("change_function", pp, fp, behaviour["change_function"])>>,
                   behaviour["change_function"])
    ELSE IF "refactor_code" \in attrs
    THEN RunResult(<<Invocation("refactor_code", pp, fp, behaviour["refactor_code"])>>,
                   behaviour["refactor_code"])
    ELSE RunResult(<<>>, Raised(Exc("ValueError", MsgNoEntryPoint, "None")))

(***************************************************************************)
(* CodeModifierAgent._execute_rope_script: its pieces                      *)
(***************************************************************************)
MsgExecPrefix == <<"Error executing Rope script from temporary file ">>

\* a plausible slip: the message leaves the temporary file out
wrap_error_no_path(path, e) ==
    Exc("ValueError", <<"Error executing Rope script: ">> \o e.msg, e.type)

\* a plausible slip: the exception is raised again as it is
wrap_error_reraise(path, e) == e

\* raise ValueError(f"Error executing ... {temp_file_path}: {e}") from e
wrap_error(path, e) ==
    Exc("ValueError", MsgExecPrefix \o path \o <<": ">> \o e.msg, e.type)

\* a plausible slip: the clean-up deletes nothing
os_unlink_missing(fs, path) == fs

\* os.unlink(path)
os_unlink(fs, path) == [q \in DOMAIN fs \ {path} |-> fs[q]]

(***************************************************************************)
(* Bounds and inputs                                                       *)
(***************************************************************************)
MaxTmp == 2
MaxDepth == 3

TmpPool == <<"tmpa.py", "tmpb.py", "tmpc.py", "tmpd.py">>
StagePool == <<"stagea", "stageb", "stagec", "staged">>

\* names tempfile.mkstemp(suffix=".py") and tempfile.TemporaryDirectory() can give
TmpPaths == {<<SEP, "tmp", SEP, TmpPool[i]>> : i \in 1..MaxTmp}
StageDirs == {<<SEP, "tmp", SEP, StagePool[i]>> : i \in 1..MaxTmp}

SourceText == <<"def", SP, "hello():", NL, IND, "return", SP, "'Hello, World!'">>

TargetFile == <<SEP, "proj", SEP, "sub", SEP, "file.py">>
EmptyFile == <<SEP, "proj", SEP, "empty.py">>

InitFiles == (TargetFile :> SourceText) @@ (EmptyFile :> <<>>)

\* what an entry point leaves in a file it writes
ScriptOutput == <<"def", SP, "hello():", NL, IND, "return", SP, "'Hello, Rope!'">>

ValidScript == ScriptOf({1, 5, 7, 8, 10})

\* the import of ValidScript followed by its function, every line of the
\* function commented out
CommentedScript ==
    JoinLines(<<ImportProject>> \o
              [i \in 1..4 |-> <<"#", SP>> \o <<DefChange, MkProject, GetResource,
                                               ReturnLine>>[i]])

\* what the provider may answer
Responses ==
    {PyStr(ValidScript),
     PyStr(<<FencePython, NL>> \o ValidScript \o <<NL, Fence>>),
     PyStr(ScriptOf({1, 5, 7, 8, 10, 11, 12})),
     PyStr(ScriptOf({1, 4, 5, 7, 8, 10})),
     PyStr(ScriptOf({1, 5, 7, 8, 9, 10})),
     PyStr(ScriptOf({5, 7, 8, 10})),
     PyStr(ScriptOf({1, 7, 8, 10, 11, 12})),
     PyStr(CommentedScript),
     PyList(<<ValidScript>>),
     PyList(<<>>),
     PyNone}

\* scripts handed to _execute_rope_script directly
ExecScripts == {ScriptOf(idx) : idx \in SUBSET {1, 5, 9, 10, 11, 12}}

ModifyFilePaths ==
    {TargetFile, <<"sub", SEP, "file.py">>, EmptyFile, <<SEP, "proj", SEP, "missing.py">>}
ModifyProjectPaths == {PyNone, PyStr(<<SEP, "proj">>), PyStr(<<SEP, "other">>)}
ExecFilePaths == {TargetFile, <<"file.py">>}
ExecProjectPaths == {<<SEP, "proj">>}

WorkingDirs == {<<SEP>>, <<SEP, "proj">>}
Installations == {{}, VALID_ROPE_MODULES, RopeDotted}

\* how an entry point may end when called: it is code the provider wrote
EntryOutcomes ==
    {Returned(PyStr(<<"Modified content">>)),
     Returned(PyStr(<<"Legacy content">>)),
     Returned(PyNone),
     Raised(Exc("RuntimeError", <<"boom">>, "None")),
     Raised(Exc("ValueError", <<"bad value">>, "None")),
     Raised(Exc("SystemExit", <<"1">>, "None"))}

PathComponents == {"proj", "sub", "file.py", ".."}

ComponentLists(n) == UNION {[1..k -> PathComponents] : k \in 0..n}

PathsUpTo(n) ==
    {JoinComponents(c) : c \in ComponentLists(n)}
        \cup {<<SEP>> \o JoinComponents(c) : c \in ComponentLists(n)}

(***************************************************************************)
(* The pipeline: modify_file, generate_code, _execute_rope_script          *)
(***************************************************************************)
\* no constructor, generator call or side-by-side execution is under way
RestIdle ==
    /\ environ = PyNone /\ DSPY_AVAILABLE = TRUE /\ settings_lm = PyNone
    /\ providers = <<>> /\ completions = {} /\ ctor = <<>>
    /\ file_content = <<>> /\ instructions = <<>> /\ prompt = <<>>
    /\ frames = <<>> /\ creator = <<>>

Locals ==
    /\ op = "none" /\ script = <<>> /\ file_path = <<>> /\ project_path = PyNone
    /\ response = PyNone /\ lm_calls = 0 /\ written = {}
    /\ temp_file_path = <<>> /\ module = {}
    /\ rel_file_path = <<>> /\ invoked = <<>> /\ raised = NoExc
    /\ pending = NoOutcome /\ outcome = NoOutcome

Init ==
    /\ pc = "idle"
    /\ cwd \in WorkingDirs
    /\ installed \in Installations
    /\ files = InitFiles
    /\ dirs = {}
    /\ Locals
    /\ RestIdle

\* a caller calls modify_file(file_path, instructions, project_path)
CallModifyFile ==
    /\ pc = "idle"
    /\ \E fp \in ModifyFilePaths, pp \in ModifyProjectPaths :
           /\ file_path' = fp
           /\ project_path' = pp
    /\ op' = "modify_file"
    /\ pc' = "mf_read"
    /\ UNCHANGED <<script, cwd, installed, dirs, response, lm_calls, written, files,
                   temp_file_path, module, rel_file_path, invoked, raised, pending,
                   outcome, apart>>

\* with open(file_path, "r") as f: file_content = f.read()
ModifyFileRead ==
    /\ pc = "mf_read"
    /\ IF abspath(file_path, cwd) \in DOMAIN files
       THEN pc' = "mf_generate" /\ UNCHANGED outcome
       ELSE /\ outcome' = Raised(Exc("FileNotFoundError",
                                     <<"No such file or directory: ">> \o file_path,
                                     "None"))
            /\ pc' = "done"
    /\ UNCHANGED <<op, script, file_path, project_path, cwd, installed, dirs, response,
                   lm_calls, written, files, temp_file_path, module, rel_file_path,
                   invoked, raised, pending, apart>>

\* rope_script = self.rope_script_generator(file_content, instructions)
ModifyFileGenerate ==
    /\ pc = "mf_generate"
    /\ \E resp \in Responses :
           /\ response' = resp
           /\ lm_calls' = lm_calls + 1
           /\ LET g == generate_script(resp) IN
              IF g.kind = "raise"
              THEN outcome' = g /\ pc' = "done" /\ UNCHANGED script
              ELSE script' = g.value.v /\ pc' = "mf_project" /\ UNCHANGED outcome
    /\ UNCHANGED <<op, file_path, project_path, cwd, installed, dirs, written, files,
                   temp_file_path, module, rel_file_path, invoked, raised, pending,
                   apart>>

\* a plausible slip: the directory part of file_path as it was given
ModifyFileProjectNoAbspath ==
    /\ pc = "mf_project"
    /\ project_path' = IF project_path = PyNone
                       THEN PyStr(dirname(file_path))
                       ELSE project_path
    /\ pc' = "exec_mkstemp"
    /\ UNCHANGED <<op, script, file_path, cwd, installed, dirs, response, lm_calls,
                   written, files, temp_file_path, module, rel_file_path, invoked,
                   raised, pending, outcome, apart>>

\* if project_path is None: project_path = dirname(abspath(file_path))
ModifyFileProject ==
    /\ pc = "mf_project"
    /\ project_path' = IF project_path = PyNone
                       THEN PyStr(dirname(abspath(file_path, cwd)))
                       ELSE project_path
    /\ pc' = "exec_mkstemp"
    /\ UNCHANGED <<op, script, file_path, cwd, installed, dirs, response, lm_calls,
                   written, files, temp_file_path, module, rel_file_path, invoked,
                   raised, pending, outcome, apart>>

\* a caller calls generate_code(instructions)
CallGenerateCode ==
    /\ pc = "idle"
    /\ op' = "generate_code"
    /\ pc' = "gc_generate"
    /\ UNCHANGED <<script, file_path, project_path, cwd, installed, dirs, response,
                   lm_calls, written, files, temp_file_path, module, rel_file_path,
                   invoked, raised, pending, outcome, apart>>

\* rope_script = self.rope_script_generator("", "Create a new file with: ...")
GenerateCodeGenerate ==
    /\ pc = "gc_generate"
    /\ \E resp \in Responses :
           /\ response' = resp
           /\ lm_calls' = lm_calls + 1
           /\ LET g == generate_script(resp) IN
              IF g.kind = "raise"
              THEN outcome' = g /\ pc' = "done" /\ UNCHANGED script
              ELSE script' = g.value.v /\ pc' = "gc_stage" /\ UNCHANGED outcome
    /\ UNCHANGED <<op, file_path, project_path, cwd, installed, dirs, written, files,
                   temp_file_path, module, rel_file_path, invoked, raised, pending,
                   apart>>

\* with tempfile.TemporaryDirectory() as project_path: the empty placeholder
\* generated_code.py is created in it
GenerateCodeStage ==
    /\ pc = "gc_stage"
    /\ \E d \in StageDirs \ dirs :
           /\ dirs' = dirs \cup {d}
           /\ project_path' = PyStr(d)
           /\ file_path' = join(d, <<"generated_code.py">>)
           /\ files' = (join(d, <<"generated_code.py">>) :> <<>>) @@ files
    /\ pc' = "exec_mkstemp"
    /\ UNCHANGED <<op, script, cwd, installed, response, lm_calls, written,
                   temp_file_path, module, rel_file_path, invoked, raised, pending,
                   outcome, apart>>

\* a caller calls _execute_rope_script(script, project_path, file_path)
CallExecuteRopeScript ==
    /\ pc = "idle"
    /\ \E s \in ExecScripts, pp \in ExecProjectPaths, fp \in ExecFilePaths :
           /\ script' = s
           /\ project_path' = PyStr(pp)
           /\ file_path' = fp
    /\ op' = "_execute_rope_script"
    /\ pc' = "exec_mkstemp"
    /\ UNCHANGED <<cwd, installed, dirs, response, lm_calls, written, files,
                   temp_file_path, module, rel_file_path, invoked, raised, pending,
                   outcome, apart>>

\* fd, temp_file_path = tempfile.mkstemp(suffix=".py"); os.close(fd)
ExecMkstemp ==
    /\ pc = "exec_mkstemp"
    /\ \E t \in TmpPaths \ DOMAIN files :
           /\ temp_file_path' = t
           /\ files' = (t :> <<>>) @@ files
    /\ pc' = "exec_write"
    /\ UNCHANGED <<op, script, file_path, project_path, cwd, installed, dirs, response,
                   lm_calls, written, module, rel_file_path, invoked, raised, pending,
                   outcome, apart>>

\* a plausible slip: the script is written to file_path, not temp_file_path
ExecWriteToTarget ==
    /\ pc = "exec_write"
    /\ files' = [q \in DOMAIN files \cup {abspath(file_path, cwd)} |->
                     IF q = abspath(file_path, cwd) THEN script ELSE files[q]]
    /\ pc' = "exec_load"
    /\ UNCHANGED <<op, script, file_path, project_path, cwd, installed, dirs, response,
                   lm_calls, written, temp_file_path, module, rel_file_path, invoked,
                   raised, pending, outcome, apart>>

\* try: with open(temp_file_path, "w") as f: f.write(script)
ExecWrite ==
    /\ pc = "exec_write"
    /\ files' = [files EXCEPT ![temp_file_path] = script]
    /\ pc' = "exec_load"
    /\ UNCHANGED <<op, script, file_path, project_path, cwd, installed, dirs, response,
                   lm_calls, written, temp_file_path, module, rel_file_path, invoked,
                   raised, pending, outcome, apart>>

\* where an exception raised in the try body goes: the except clause catches
\* Exception and its subclasses, anything else goes to finally as it is
ExceptOrFinally(e) ==
    IF IsException(e)
    THEN raised' = e /\ pc' = "exec_except" /\ UNCHANGED pending
    ELSE pending' = Raised(e) /\ pc' = "exec_finally" /\ UNCHANGED raised

\* module = self._load_module_from_file(temp_file_path)
ExecLoad ==
    /\ pc = "exec_load"
    /\ LET l == _load_module_from_file(temp_file_path, files, installed) IN
       IF l.exc = NoExc
       THEN module' = l.attrs /\ pc' = "exec_relpath" /\ UNCHANGED <<raised, pending, written>>
       ELSE ExceptOrFinally(l.exc) /\ UNCHANGED module
    /\ UNCHANGED <<op, script, file_path, project_path, cwd, installed, dirs, response,
                   lm_calls, written, files, temp_file_path, rel_file_path, invoked,
                   outcome, apart>>

\* rel_file_path = self._get_relative_path(file_path, project_path)
ExecRelPath ==
    /\ pc = "exec_relpath"
    /\ LET r == _get_relative_path(file_path, project_path.v, cwd) IN
       IF r.kind = "return"
       THEN /\ rel_file_path' = r.value.v
            /\ pc' = "exec_run"
            /\ UNCHANGED <<raised, pending, written>>
       ELSE ExceptOrFinally(r.exc) /\ UNCHANGED rel_file_path
    /\ UNCHANGED <<op, script, file_path, project_path, cwd, installed, dirs, response,
                   lm_calls, written, files, temp_file_path, module, invoked, outcome,
                   apart>>

\* return self._run_script_function(module, project_path, rel_file_path): the
\* entry point that is invoked is code the provider wrote; before it ends it
\* may write the file its two arguments name, if that file exists
ExecRun ==
    /\ pc = "exec_run"
    /\ \E behaviour \in [EntryNames -> EntryOutcomes], writes \in BOOLEAN :
           LET r == _run_script_function(module, project_path.v, rel_file_path,
                                         behaviour)
               resource == abspath(join(project_path.v, rel_file_path), cwd)
           IN /\ invoked' = invoked \o r.calls
              /\ IF writes /\ r.calls # <<>> /\ resource \in DOMAIN files
                 THEN /\ files' = [files EXCEPT ![resource] = ScriptOutput]
                      /\ written' = written \cup {resource}
                 ELSE UNCHANGED <<files, written>>
              /\ IF r.result.kind = "return"
                 THEN /\ pending' = r.result
                      /\ pc' = "exec_finally"
                      /\ UNCHANGED raised
                 ELSE ExceptOrFinally(r.result.exc)
    /\ UNCHANGED <<op, script, file_path, project_path, cwd, installed, dirs, response,
                   lm_calls, temp_file_path, module, rel_file_path, outcome, apart>>

\* except Exception as e: raise ValueError(...) from e
ExecExcept ==
    /\ pc = "exec_except"
    /\ pending' = Raised(wrap_error(temp_file_path, raised))
    /\ pc' = "exec_finally"
    /\ UNCHANGED <<op, script, file_path, project_path, cwd, installed, dirs, response,
                   lm_calls, written, files, temp_file_path, module, rel_file_path,
                   invoked, raised, outcome, apart>>

\* a plausible slip: the deletion is the last statement of the try block, so
\* it is skipped when the call leaves with an error
ExecFinallyOnReturnOnly ==
    /\ pc = "exec_finally"
    /\ files' = IF pending.kind = "return" THEN os_unlink(files, temp_file_path)
                ELSE files
    /\ pc' = "exec_exit"
    /\ UNCHANGED <<op, script, file_path, project_path, cwd, installed, dirs, response,
                   lm_calls, written, temp_file_path, module, rel_file_path, invoked,
                   raised, pending, outcome, apart>>

\* finally: os.unlink(temp_file_path)
ExecFinally ==
    /\ pc = "exec_finally"
    /\ files' = os_unlink(files, temp_file_path)
    /\ pc' = "exec_exit"
    /\ UNCHANGED <<op, script, file_path, project_path, cwd, installed, dirs, response,
                   lm_calls, written, temp_file_path, module, rel_file_path, invoked,
                   raised, pending, outcome, apart>>

\* _execute_rope_script has returned or raised: modify_file and a direct
\* caller get what it delivers, generate_code leaves its with block first
ExecExit ==
    /\ pc = "exec_exit"
    /\ IF op = "generate_code"
       THEN pc' = "gc_cleanup" /\ UNCHANGED outcome
       ELSE outcome' = pending /\ pc' = "done"
    /\ UNCHANGED <<op, script, file_path, project_path, cwd, installed, dirs, response,
                   lm_calls, written, files, temp_file_path, module, rel_file_path,
                   invoked, raised, pending, apart>>

\* a plausible slip: the directory is made with mkdtemp and never removed
GenerateCodeCleanupKeepsDir ==
    /\ pc = "gc_cleanup"
    /\ outcome' = pending
    /\ pc' = "done"
    /\ UNCHANGED <<op, script, file_path, project_path, cwd, installed, dirs, response,
                   lm_calls, written, files, temp_file_path, module, rel_file_path,
                   invoked, raised, pending, apart>>

\* TemporaryDirectory.__exit__: the staging directory and what it holds go
GenerateCodeCleanup ==
    /\ pc = "gc_cleanup"
    /\ dirs' = dirs \ {project_path.v}
    /\ files' = [q \in {f \in DOMAIN files : ~IsPrefix(project_path.v \o <<SEP>>, f)}
                     |-> files[q]]
    /\ outcome' = pending
    /\ pc' = "done"
    /\ UNCHANGED <<op, script, file_path, project_path, cwd, installed, response,
                   lm_calls, written, temp_file_path, module, rel_file_path, invoked,
                   raised, pending, apart>>

\* the caller moves on; the next call starts from fresh locals
NextCall ==
    /\ pc = "done"
    /\ pc' = "idle"
    /\ op' = "none" /\ script' = <<>> /\ file_path' = <<>> /\ project_path' = PyNone
    /\ response' = PyNone /\ lm_calls' = 0 /\ written' = {}
    /\ temp_file_path' = <<>> /\ module' = {}
    /\ rel_file_path' = <<>> /\ invoked' = <<>> /\ raised' = NoExc
    /\ pending' = NoOutcome /\ outcome' = NoOutcome
    /\ UNCHANGED <<cwd, installed, dirs, files, apart>>

Next ==
    \/ CallModifyFile \/ ModifyFileRead \/ ModifyFileGenerate \/ ModifyFileProject
    \/ CallGenerateCode \/ GenerateCodeGenerate \/ GenerateCodeStage
    \/ CallExecuteRopeScript
    \/ ExecMkstemp \/ ExecWrite \/ ExecLoad \/ ExecRelPath \/ ExecRun
    \/ ExecExcept \/ ExecFinally \/ ExecExit
    \/ GenerateCodeCleanup
    \/ NextCall

Spec == Init /\ [][Next]_vars

(***************************************************************************)
(* _validate_script applied to every script of the vocabulary              *)
(***************************************************************************)
InitValidate ==
    /\ pc = "validate"
    /\ cwd = <<SEP>> /\ installed = {} /\ files = InitFiles /\ dirs = {}
    /\ op = "_validate_script" /\ script \in CorpusScripts
    /\ file_path = <<>> /\ project_path = PyNone
    /\ response = PyNone /\ lm_calls = 0 /\ written = {}
    /\ temp_file_path = <<>> /\ module = {}
    /\ rel_file_path = <<>> /\ invoked = <<>> /\ raised = NoExc
    /\ pending = NoOutcome /\ outcome = NoOutcome
    /\ RestIdle

ValidateScript ==
    /\ pc = "validate"
    /\ outcome' = _validate_script(script)
    /\ pc' = "validated"
    /\ UNCHANGED <<op, script, file_path, project_path, cwd, installed, dirs, response,
                   lm_calls, written, files, temp_file_path, module, rel_file_path,
                   invoked, raised, pending, apart>>

SpecValidate == InitValidate /\ [][ValidateScript]_vars

(***************************************************************************)
(* _get_relative_path applied to paths, project roots, working directories *)
(***************************************************************************)
InitPath ==
    /\ pc = "resolve"
    /\ cwd \in {<<SEP>>, <<SEP, "proj">>, <<SEP, "sub">>}
    /\ installed = {} /\ files = InitFiles /\ dirs = {}
    /\ op = "_get_relative_path" /\ script = <<>>
    /\ file_path \in PathsUpTo(MaxDepth)
    /\ project_path \in {PyStr(p) : p \in PathsUpTo(MaxDepth - 1) \cup {<<".">>}}
    /\ response = PyNone /\ lm_calls = 0 /\ written = {}
    /\ temp_file_path = <<>> /\ module = {}
    /\ rel_file_path = <<>> /\ invoked = <<>> /\ raised = NoExc
    /\ pending = NoOutcome /\ outcome = NoOutcome
    /\ RestIdle

ResolvePath ==
    /\ pc = "resolve"
    /\ outcome' = _get_relative_path(file_path, project_path.v, cwd)
    /\ pc' = "resolved"
    /\ UNCHANGED <<op, script, file_path, project_path, cwd, installed, dirs, response,
                   lm_calls, written, files, temp_file_path, module, rel_file_path,
                   invoked, raised, pending, apart>>

SpecPath == InitPath /\ [][ResolvePath]_vars

(***************************************************************************)
(* The two normalizers applied to provider responses                       *)
(***************************************************************************)
MaxItems == 2

ProseBefore == <<"Here is the script:", NL>>
ProseAfter == <<NL, "Hope this helps.">>

\* script texts a response may hold, some with whitespace at their ends
NormBodies ==
    {ValidScript, <<NL, NL>> \o ValidScript, ValidScript \o <<NL>>,
     <<SP>> \o ScriptOf({5, 10}), <<>>}

\* string responses: a body, fenced or not, with or without prose around it
NormStrings ==
    {pre \o open \o b \o close \o post :
        pre \in {<<>>, ProseBefore},
        open \in {<<>>, <<FencePython, NL>>, <<Fence, NL>>},
        b \in NormBodies,
        close \in {<<>>, <<NL, Fence>>},
        post \in {<<>>, ProseAfter}}

NormLists == UNION {[1..k -> NormBodies \ {<<>>}] : k \in 0..MaxItems}

NormOthers ==
    {PyNone, PyInt("0"), PyInt("42"), PyBool(FALSE), PyBool(TRUE),
     PyObject(<<"custom response string">>)}

NormResponses ==
    {PyStr(t) : t \in NormStrings} \cup {PyList(l) : l \in NormLists} \cup NormOthers

InitNormalize ==
    /\ pc = "normalize"
    /\ cwd = <<SEP>> /\ installed = {} /\ files = InitFiles /\ dirs = {}
    /\ op = "none" /\ script = <<>>
    /\ file_path = <<>> /\ project_path = PyNone
    /\ response \in NormResponses /\ lm_calls = 1 /\ written = {}
    /\ temp_file_path = <<>> /\ module = {}
    /\ rel_file_path = <<>> /\ invoked = <<>> /\ raised = NoExc
    /\ pending = NoOutcome /\ outcome = NoOutcome
    /\ RestIdle

\* codeagent/dspy_modules.py __call__ after the provider call:
\* script = self._extract_script_from_response(response); return script
ExtractScript ==
    /\ pc = "normalize"
    /\ op' = "_extract_script_from_response"
    /\ script' = _extract_script_from_response(response)
    /\ outcome' = Returned(PyStr(_extract_script_from_response(response)))
    /\ pc' = "normalized"
    /\ UNCHANGED <<file_path, project_path, cwd, installed, dirs, response, lm_calls,
                   written, files, temp_file_path, module, rel_file_path, invoked,
                   raised, pending, apart>>

\* rope_script_generator.py _generate_refactoring_script after the provider
\* call: the response is made a string and cleaned, the script is validated
\* and returned
GenerateRefactoringScript ==
    /\ pc = "normalize"
    /\ op' = "_generate_refactoring_script"
    /\ script' = _clean_script(to_str(response))
    /\ outcome' = generate_script(response)
    /\ pc' = "normalized"
    /\ UNCHANGED <<file_path, project_path, cwd, installed, dirs, response, lm_calls,
                   written, files, temp_file_path, module, rel_file_path, invoked,
                   raised, pending, apart>>

SpecNormalize == InitNormalize /\ [][ExtractScript \/ GenerateRefactoringScript]_vars

(***************************************************************************)
(* RopeScriptGenerator: the two prompts                                    *)
(***************************************************************************)
\* the backquote the prompts put around names
Tick == "[tick]"

CreatePrefix == <<"Create a new file with:">>

\* str.startswith
startswith(text, prefix) ==
    Len(text) >= Len(prefix) /\ SubSeq(text, 1, Len(prefix)) = prefix

\* the lines under "IMPORTANT: Only use the following Rope imports:", the same
\* in both prompts
PromptImports ==
    <<"-", SP, "from", SP, "rope.base.project", SP, "import", SP, "Project", NL,
      "-", SP, "from", SP, "rope.base.exceptions", SP, "import", SP, "...", NL,
      "-", SP, "from", SP, "rope.refactor.rename", SP, "import", SP, "Rename", NL,
      "-", SP, "from", SP, "rope.refactor.extract", SP, "import", SP,
          "ExtractMethod,", SP, "ExtractVariable", NL,
      "-", SP, "from", SP, "rope.refactor.inline", SP, "import", SP, "Inline", NL,
      "-", SP, "from", SP, "rope.contrib.codeassist", SP, "import", SP,
          "get_definition_location", NL>>

\* the worked example of a prompt: what both prompts share of it, around the
\* body of the example function
ExampleScript(body) ==
    <<FencePython, NL>> \o ImportProject \o <<NL, NL>> \o DefChange
        \o <<NL, IND, "# Create a Rope project in the current directory", NL,
             IND, "project", SP, "=", SP, "Project(project_path)", NL, IND, NL>>
        \o body
        \o <<Fence, NL>>

RefactoringExample ==
    ExampleScript(
        <<IND, "# Get the file resource", NL,
          IND, "source_code", SP, "=", SP, "project.get_resource(file_path)", NL,
          IND, NL,
          IND, "# Read the current content", NL,
          IND, "source", SP, "=", SP, "source_code.read()", NL,
          IND, NL,
          IND, "# Create the modified content", NL,
          IND, "new_source", SP, "=", SP,
          "\"def modified_function():\\n    return 'Modified!'\\n\"", NL,
          IND, NL,
          IND, "# Write the modified content back to the file", NL,
          IND, "source_code.write(new_source)", NL,
          IND, NL,
          IND, "# Return the modified content", NL,
          IND, "return", SP, "new_source", NL>>)

NewFileExample ==
    ExampleScript(
        <<IND, "# Get or create the file resource", NL,
          IND, "source_code", SP, "=", SP, "project.get_resource(file_path)", NL,
          IND, NL,
          IND, "# Create the content for the new file", NL,
          IND, "new_source", SP, "=", SP,
          "\"def new_function():\\n    return 'Hello, World!'\\n\"", NL,
          IND, NL,
          IND, "# Write the content to the file", NL,
          IND, "source_code.write(new_source)", NL,
          IND, NL,
          IND, "# Return the generated content", NL,
          IND, "return", SP, "new_source", NL>>)

\* the prompt of _generate_refactoring_script
RefactoringPrompt(content, instr) ==
    <<NL, "You are a Python code refactoring expert. Your task is to write a Python script that uses the Rope library to refactor code.",
      NL, NL, "Here are the instructions for the refactoring:", NL>>
        \o instr
        \o <<NL, NL, "Here is the code to refactor:", NL, FencePython, NL>>
        \o content
        \o <<NL, Fence, NL, NL,
             "Write a Python script that uses the Rope library to perform this refactoring. The script should:",
             NL, "1. Define a function named", SP, Tick,
             "change_function(project_path, file_path)", Tick, SP,
             "that performs the refactoring.", NL,
             "2. Use the Rope library to perform the refactoring.", NL,
             "3. Return the modified code as a string.", NL, NL,
             "The script should be self-contained and handle any necessary imports.",
             NL, NL, "IMPORTANT: Only use the following Rope imports:", NL>>
        \o PromptImports
        \o <<NL, "Example script structure:", NL>>
        \o RefactoringExample
        \o <<NL, "Only output the Python code, nothing else.", NL>>

\* the prompt of _generate_new_file_script
NewFilePrompt(instr) ==
    <<NL, "You are a Python code generation expert. Your task is to write a Python script that uses the Rope library to create a new file with code.",
      NL, NL, "Here are the instructions for the code to generate:", NL>>
        \o instr
        \o <<NL, NL,
             "Write a Python script that uses the Rope library to create this code. The script should:",
             NL, "1. Define a function named", SP, Tick,
             "change_function(project_path, file_path)", Tick, SP,
             "that creates the file with the requested code.", NL,
             "2. Use the Rope library to create or modify the file with the requested code.",
             NL, "3. Return the generated code as a string.", NL, NL,
             "The script should be self-contained and handle any necessary imports.",
             NL, NL, "IMPORTANT: Only use the following Rope imports:", NL>>
        \o PromptImports
        \o <<NL, "Example script structure:", NL>>
        \o NewFileExample
        \o <<NL, "Only output the Python code, nothing else.", NL>>

\* __call__ up to the provider call: the prompt of the variant it selects
build_prompt(content, instr) ==
    IF content = <<>> /\ startswith(instr, CreatePrefix)
    THEN NewFilePrompt(Strip(SubSeq(instr, Len(CreatePrefix) + 1, Len(instr))))
    ELSE RefactoringPrompt(content, instr)

\* the prompt of codeagent/dspy_modules.py __call__
LegacyPrompt(code, instr) ==
    <<NL, "You are an expert Python programmer. Your task is to write a Python script that uses the Rope library to modify code according to the given instructions.",
      NL, NL,
      "The script should define a function called 'refactor_code' that takes two parameters:",
      NL, "1. project_path: The path to the project root", NL,
      "2. file_path: The relative path to the file to modify", NL, NL,
      "The function should use Rope to modify the file according to the instructions and return the modified content.",
      NL, NL, "Here are the instructions for modifying the code:", NL>>
        \o instr
        \o <<NL, NL, "Here is the code to modify:", NL, FencePython, NL>>
        \o code
        \o <<NL, Fence, NL, NL,
             "Write a Python script that uses Rope to implement these changes. The script should be self-contained and not rely on any external dependencies other than Rope.",
             NL>>

(***************************************************************************)
(* The process-wide provider binding: the constructors of the two          *)
(* generators and the generators' calls                                    *)
(***************************************************************************)
MaxThreads == 2

Threads == 1..MaxThreads

DefaultModel == <<"openrouter/google/gemini-2.0-flash-001">>

\* model_name arguments and values of CODEAGENT_MODEL
ModelArgs == {PyNone, PyStr(<<"model-a">>), PyStr(<<"model-b">>)}
EnvValues == {PyNone, PyStr(<<"env-model">>)}

\* dspy.LM(model_name)
LM(model) == [t |-> "LM", v |-> model]

\* a frame has not read dspy.settings.lm yet
Unread == [t |-> "unread", v |-> <<>>]

\* a plausible slip: the environment is not consulted
environ_get_fallback_only(env) == PyStr(DefaultModel)

\* os.environ.get("CODEAGENT_MODEL", "openrouter/google/gemini-2.0-flash-001")
environ_get(env) == IF env = PyNone THEN PyStr(DefaultModel) ELSE env

NewClass == "rope_script_generator.RopeScriptGenerator"
LegacyClass == "dspy_modules.RopeScriptGenerator"

\* the frame of a constructor that has just been called: arg is the
\* model_name it was called with, model_name its local variable, before the
\* binding at the time of the call, created the model it has bound
Frame(cls, at, arg) ==
    [cls |-> cls, pc |-> at, arg |-> arg, model_name |-> arg,
     before |-> settings_lm, found |-> Unread, created |-> PyNone]

Constructed(cls) == \E t \in DOMAIN ctor : ctor[t].cls = cls /\ ctor[t].pc = "done"

InitConfig ==
    /\ pc = "idle"
    /\ cwd = <<SEP>> /\ installed = {} /\ files = InitFiles /\ dirs = {}
    /\ Locals
    /\ environ \in EnvValues /\ DSPY_AVAILABLE \in BOOLEAN /\ settings_lm = PyNone
    /\ providers = <<>> /\ completions = {} /\ ctor = <<>>
    /\ file_content = <<>> /\ instructions = <<>> /\ prompt = <<>>
    /\ frames = <<>> /\ creator = <<>>

\* a thread calls RopeScriptGenerator(model_name) of rope_script_generator.py,
\* directly or through CodeModifierAgent(model_name); the module imports dspy
\* unconditionally
NewGenerator(t) ==
    /\ t \notin DOMAIN ctor
    /\ DSPY_AVAILABLE
    /\ \E m \in ModelArgs : ctor' = (t :> Frame(NewClass, "resolve", m)) @@ ctor
    /\ UNCHANGED <<pipeline, environ, DSPY_AVAILABLE, settings_lm, providers,
                   completions, prompting, threads>>

\* if model_name is None: model_name = os.environ.get("CODEAGENT_MODEL", ...)
InitResolve(t) ==
    /\ t \in DOMAIN ctor /\ ctor[t].pc = "resolve"
    /\ ctor' = [ctor EXCEPT ![t].model_name =
                    IF @ = PyNone THEN environ_get(environ) ELSE @,
                                 ![t].pc = "test"]
    /\ UNCHANGED <<pipeline, environ, DSPY_AVAILABLE, settings_lm, providers,
                   completions, prompting, threads>>

\* a plausible slip: an explicit model that differs from the bound one is
\* configured too
InitTestOverrides(t) ==
    /\ t \in DOMAIN ctor /\ ctor[t].pc = "test"
    /\ ctor' = [ctor EXCEPT ![t].found = settings_lm,
                            ![t].pc = IF \/ settings_lm = PyNone
                                         \/ /\ ctor[t].arg # PyNone
                                            /\ settings_lm # LM(ctor[t].arg.v)
                                      THEN "configure" ELSE "done"]
    /\ UNCHANGED <<pipeline, environ, DSPY_AVAILABLE, settings_lm, providers,
                   completions, prompting, threads>>

\* if dspy.settings.lm is None:
InitTest(t) ==
    /\ t \in DOMAIN ctor /\ ctor[t].pc = "test"
    /\ ctor' = [ctor EXCEPT ![t].found = settings_lm,
                            ![t].pc = IF settings_lm = PyNone
                                      THEN "configure" ELSE "done"]
    /\ UNCHANGED <<pipeline, environ, DSPY_AVAILABLE, settings_lm, providers,
                   completions, prompting, threads>>

\* a thread calls RopeScriptGenerator(model_name) of codeagent/dspy_modules.py
LegacyGenerator(t) ==
    /\ t \notin DOMAIN ctor
    /\ \E m \in ModelArgs : ctor' = (t :> Frame(LegacyClass, "legacy_test", m)) @@ ctor
    /\ UNCHANGED <<pipeline, environ, DSPY_AVAILABLE, settings_lm, providers,
                   completions, prompting, threads>>

\* if DSPY_AVAILABLE: if model_name: ... elif not dspy.settings.lm:
\*     model_name = os.environ.get("CODEAGENT_MODEL", ...)
LegacyInitTest(t) ==
    /\ t \in DOMAIN ctor /\ ctor[t].pc = "legacy_test"
    /\ ctor' =
           IF ~DSPY_AVAILABLE THEN [ctor EXCEPT ![t].pc = "done"]
           ELSE IF bool(ctor[t].model_name) THEN [ctor EXCEPT ![t].pc = "configure"]
           ELSE IF ~bool(settings_lm)
           THEN [ctor EXCEPT ![t].found = settings_lm,
                             ![t].model_name = environ_get(environ),
                             ![t].pc = "configure"]
           ELSE [ctor EXCEPT ![t].found = settings_lm, ![t].pc = "done"]
    /\ UNCHANGED <<pipeline, environ, DSPY_AVAILABLE, settings_lm, providers,
                   completions, prompting, threads>>

\* dspy.settings.configure(lm=dspy.LM(model_name)), in either constructor
InitConfigure(t) ==
    /\ t \in DOMAIN ctor /\ ctor[t].pc = "configure"
    /\ providers' = Append(providers, ctor[t].model_name.v)
    /\ settings_lm' = LM(ctor[t].model_name.v)
    /\ ctor' = [ctor EXCEPT ![t].created = ctor[t].model_name, ![t].pc = "done"]
    /\ UNCHANGED <<pipeline, environ, DSPY_AVAILABLE, completions, prompting, threads>>

\* what the callers of this part pass and what the provider answers
CallContents == {SourceText}
CallInstructions == {<<"Rename hello to greet">>}
CallResponses == {PyStr(ValidScript), PyNone}

\* the prompts and the generated scripts of the calls made in this part
CallPrompts ==
    [cls \in {NewClass, LegacyClass} |->
        [content \in CallContents |->
            [instr \in CallInstructions |->
                IF cls = NewClass THEN build_prompt(content, instr)
                ELSE LegacyPrompt(content, instr)]]]
CallScripts ==
    [cls \in {NewClass, LegacyClass} |->
        [resp \in CallResponses |->
            IF cls = NewClass THEN generate_script(resp)
            ELSE Returned(PyStr(_extract_script_from_response(resp)))]]

\* a plausible slip: the two checks at the head of __call__ are left out
legacy_call_unchecked(available, lm, resp) ==
    [calls |-> 1, outcome |-> CallScripts[LegacyClass][resp]]

\* codeagent/dspy_modules.py __call__: the provider calls it makes and how it
\* ends, resp being what the provider answers if it is called
legacy_call(available, lm, resp) ==
    IF ~available
    THEN [calls |-> 0,
          outcome |-> Raised(Exc("ImportError",
                                 <<"DSPy is required for RopeScriptGenerator">>,
                                 "None"))]
    ELSE IF lm = PyNone
    THEN [calls |-> 0,
          outcome |-> Raised(Exc("AssertionError", <<"No language model configured">>,
                                 "None"))]
    ELSE [calls |-> 1,
          outcome |-> CallScripts[LegacyClass][resp]]

\* generator(code, instructions) on a generator of codeagent/dspy_modules.py
LegacyCall ==
    /\ Constructed(LegacyClass)
    /\ \E code \in CallContents, instr \in CallInstructions, resp \in CallResponses :
           LET r == legacy_call(DSPY_AVAILABLE, settings_lm, resp) IN
           /\ file_content' = code /\ instructions' = instr
           /\ prompt' = IF DSPY_AVAILABLE /\ settings_lm # PyNone
                        THEN CallPrompts[LegacyClass][code][instr] ELSE <<>>
           /\ lm_calls' = r.calls
           /\ completions' = IF r.calls = 0 THEN completions
                             ELSE completions \cup {settings_lm.v}
           /\ response' = IF r.calls = 0 THEN PyNone ELSE resp
           /\ outcome' = r.outcome
           /\ script' = IF r.outcome.kind = "return" THEN r.outcome.value.v ELSE <<>>
    /\ op' = "dspy_modules.__call__"
    /\ UNCHANGED <<pc, file_path, project_path, cwd, installed, dirs, written, files,
                   temp_file_path, module, rel_file_path, invoked, raised, pending,
                   environ, DSPY_AVAILABLE, settings_lm, providers, ctor, threads>>

\* generator(file_content, instructions) on a generator of
\* rope_script_generator.py: script = dspy.settings.lm(prompt), then the
\* response is made a string, cleaned and validated
NewCall ==
    /\ Constructed(NewClass)
    /\ \E content \in CallContents, instr \in CallInstructions, resp \in CallResponses :
           /\ file_content' = content /\ instructions' = instr
           /\ prompt' = CallPrompts[NewClass][content][instr]
           /\ IF settings_lm = PyNone
              THEN /\ outcome' = Raised(Exc("TypeError",
                                            <<"'NoneType' object is not callable">>,
                                            "None"))
                   /\ lm_calls' = 0 /\ response' = PyNone /\ script' = <<>>
                   /\ UNCHANGED completions
              ELSE /\ completions' = completions \cup {settings_lm.v}
                   /\ lm_calls' = 1 /\ response' = resp
                   /\ outcome' = CallScripts[NewClass][resp]
                   /\ script' = IF CallScripts[NewClass][resp].kind = "return"
                                THEN CallScripts[NewClass][resp].value.v ELSE <<>>
    /\ op' = "rope_script_generator.__call__"
    /\ UNCHANGED <<pc, file_path, project_path, cwd, installed, dirs, written, files,
                   temp_file_path, module, rel_file_path, invoked, raised, pending,
                   environ, DSPY_AVAILABLE, settings_lm, providers, ctor, threads>>

NextConfig ==
    \/ \E t \in Threads : NewGenerator(t)
    \/ \E t \in Threads : InitResolve(t)
    \/ \E t \in Threads : InitTest(t)
    \/ \E t \in Threads : LegacyGenerator(t)
    \/ \E t \in Threads : LegacyInitTest(t)
    \/ \E t \in Threads : InitConfigure(t)
    \/ LegacyCall
    \/ NewCall

SpecConfig == InitConfig /\ [][NextConfig]_vars

(***************************************************************************)
(* _execute_rope_script called by several threads of one process           *)
(***************************************************************************)
MaxCallers == 2

Callers == 1..MaxCallers

\* what the callers pass: a script with the entry point, one with the legacy
\* entry point, one that does not compile
CallerScripts == {ScriptOf({5, 10}), ScriptOf({11, 12}), ScriptOf({5, 9})}
CallerProject == <<SEP, "proj">>
CallerOutcomes ==
    {Returned(PyStr(<<"Modified content">>)),
     Raised(Exc("RuntimeError", <<"boom">>, "None"))}

\* one access of a call to a file: of is the thread whose mkstemp made the
\* file, 0 when the file was not there
Access(kind, path) ==
    [kind |-> kind, path |-> path,
     of |-> IF path \in DOMAIN creator THEN creator[path] ELSE 0]

\* where the try statement goes with exception e: except Exception wraps it,
\* anything else passes to finally as it is
Wrapped(path, e) == IF IsException(e) THEN Raised(wrap_error(path, e)) ELSE Raised(e)

InitThreads ==
    /\ pc = "idle"
    /\ cwd = <<SEP>> /\ installed = {} /\ files = InitFiles /\ dirs = {}
    /\ Locals
    /\ environ = PyNone /\ DSPY_AVAILABLE = TRUE /\ settings_lm = PyNone
    /\ providers = <<>> /\ completions = {} /\ ctor = <<>>
    /\ file_content = <<>> /\ instructions = <<>> /\ prompt = <<>>
    /\ frames = <<>> /\ creator = <<>>

\* thread t calls _execute_rope_script(script, project_path, file_path)
ThreadCall(t) ==
    /\ t \in DOMAIN frames => frames[t].pc = "done"
    /\ \E s \in CallerScripts :
           frames' = (t :> [pc |-> "mkstemp", script |-> s, temp_file_path |-> <<>>,
                            module |-> {}, pending |-> NoOutcome,
                            outcome |-> NoOutcome, accesses |-> {}])
                         @@ [u \in DOMAIN frames \ {t} |-> frames[u]]
    /\ UNCHANGED <<pipeline, binding, prompting, creator>>

\* a plausible slip: every call uses the same file name
ThreadMkstempFixedName(t) ==
    /\ t \in DOMAIN frames /\ frames[t].pc = "mkstemp"
    /\ LET p == <<SEP, "tmp", SEP, TmpPool[1]>> IN
       /\ frames' = [frames EXCEPT
                         ![t].temp_file_path = p, ![t].pc = "write",
                         ![t].accesses =
                             @ \cup {[kind |-> "create", path |-> p,
                                      of |-> IF p \in DOMAIN creator
                                             THEN creator[p] ELSE t]}]
       /\ files' = (p :> <<>>) @@ files
       /\ creator' = IF p \in DOMAIN creator THEN creator ELSE (p :> t) @@ creator
    /\ UNCHANGED <<pc, op, script, file_path, project_path, cwd, installed, dirs,
                   response, lm_calls, written, temp_file_path, module,
                   rel_file_path, invoked, raised, pending, outcome, binding,
                   prompting>>

\* fd, temp_file_path = tempfile.mkstemp(suffix=".py"); os.close(fd): the file
\* is created under a name no file has
ThreadMkstemp(t) ==
    /\ t \in DOMAIN frames /\ frames[t].pc = "mkstemp"
    /\ \E p \in TmpPaths \ DOMAIN files :
           /\ frames' = [frames EXCEPT ![t].temp_file_path = p, ![t].pc = "write",
                                       ![t].accesses = @ \cup {[kind |-> "create",
                                                                path |-> p, of |-> t]}]
           /\ files' = (p :> <<>>) @@ files
           /\ creator' = (p :> t) @@ creator
    /\ UNCHANGED <<pc, op, script, file_path, project_path, cwd, installed, dirs,
                   response, lm_calls, written, temp_file_path, module,
                   rel_file_path, invoked, raised, pending, outcome, binding,
                   prompting>>

\* with open(temp_file_path, "w") as f: f.write(script)
ThreadWrite(t) ==
    /\ t \in DOMAIN frames /\ frames[t].pc = "write"
    /\ LET p == frames[t].temp_file_path IN
       /\ frames' = [frames EXCEPT ![t].pc = "load",
                                   ![t].accesses = @ \cup {Access("write", p)}]
       /\ files' = (p :> frames[t].script) @@ files
       /\ creator' = IF p \in DOMAIN creator THEN creator ELSE (p :> t) @@ creator
    /\ UNCHANGED <<pc, op, script, file_path, project_path, cwd, installed, dirs,
                   response, lm_calls, written, temp_file_path, module,
                   rel_file_path, invoked, raised, pending, outcome, binding,
                   prompting>>

\* module = self._load_module_from_file(temp_file_path)
ThreadLoad(t) ==
    /\ t \in DOMAIN frames /\ frames[t].pc = "load"
    /\ LET p == frames[t].temp_file_path
           l == IF p \in DOMAIN files
                THEN _load_module_from_file(p, files, installed)
                ELSE LoadResult(Exc("FileNotFoundError",
                                    <<"No such file or directory: ">> \o p, "None"),
                                {})
       IN frames' = [frames EXCEPT
                         ![t].accesses = @ \cup {Access("load", p)},
                         ![t].module = l.attrs,
                         ![t].pending = IF l.exc = NoExc THEN @ ELSE Wrapped(p, l.exc),
                         ![t].pc = IF l.exc = NoExc THEN "run" ELSE "finally"]
    /\ UNCHANGED <<pipeline, binding, prompting, creator>>

\* rel_file_path = self._get_relative_path(file_path, project_path);
\* return self._run_script_function(module, project_path, rel_file_path): an
\* entry point that is invoked may write the file its arguments name
ThreadRun(t) ==
    /\ t \in DOMAIN frames /\ frames[t].pc = "run"
    /\ \E behaviour \in [EntryNames -> CallerOutcomes], writes \in BOOLEAN :
           LET rel == _get_relative_path(TargetFile, CallerProject, cwd)
               r == _run_script_function(frames[t].module, CallerProject,
                                         rel.value.v, behaviour)
               resource == abspath(join(CallerProject, rel.value.v), cwd)
           IN /\ frames' = [frames EXCEPT
                                ![t].pending =
                                    IF r.result.kind = "return" THEN r.result
                                    ELSE Wrapped(frames[t].temp_file_path,
                                                 r.result.exc),
                                ![t].pc = "finally"]
              /\ files' = IF writes /\ r.calls # <<>> /\ resource \in DOMAIN files
                          THEN [files EXCEPT ![resource] = ScriptOutput]
                          ELSE files
    /\ UNCHANGED <<pc, op, script, file_path, project_path, cwd, installed, dirs,
                   response, lm_calls, written, temp_file_path, module,
                   rel_file_path, invoked, raised, pending, outcome, binding,
                   prompting, creator>>

\* finally: os.unlink(temp_file_path), then the call returns or raises
ThreadFinally(t) ==
    /\ t \in DOMAIN frames /\ frames[t].pc = "finally"
    /\ LET p == frames[t].temp_file_path IN
       /\ frames' = [frames EXCEPT
                         ![t].accesses = @ \cup {Access("unlink", p)},
                         ![t].outcome =
                             IF p \in DOMAIN files THEN frames[t].pending
                             ELSE Raised(Exc("FileNotFoundError",
                                             <<"No such file or directory: ">> \o p,
                                             "None")),
                         ![t].pc = "done"]
       /\ files' = os_unlink(files, p)
       /\ creator' = [q \in DOMAIN creator \ {p} |-> creator[q]]
    /\ UNCHANGED <<pc, op, script, file_path, project_path, cwd, installed, dirs,
                   response, lm_calls, written, temp_file_path, module,
                   rel_file_path, invoked, raised, pending, outcome, binding,
                   prompting>>

NextThreads ==
    \/ \E t \in Callers : ThreadCall(t)
    \/ \E t \in Callers : ThreadMkstemp(t)
    \/ \E t \in Callers : ThreadWrite(t)
    \/ \E t \in Callers : ThreadLoad(t)
    \/ \E t \in Callers : ThreadRun(t)
    \/ \E t \in Callers : ThreadFinally(t)

SpecThreads == InitThreads /\ [][NextThreads]_vars

(***************************************************************************)
(* The generator's __call__ as its callers reach it: the prompt it builds  *)
(***************************************************************************)
\* what a caller may pass as file content and as instructions
PromptContents == {<<>>, SourceText, <<NL>>}
PromptInstructions ==
    {<<"Rename hello to greet">>,
     <<"Create a new file with:", SP, "a hello function">>,
     <<"Create a new file with:">>,
     <<"Create a new file">>,
     <<SP, "Create a new file with:", SP, "a hello function">>,
     <<>>}
PromptResponses == {PyStr(ValidScript), PyList(<<>>), PyNone}

InitPrompt ==
    /\ pc = "prompt"
    /\ cwd = <<SEP>> /\ installed = {} /\ files = InitFiles /\ dirs = {}
    /\ Locals
    /\ environ = PyNone /\ DSPY_AVAILABLE = TRUE /\ settings_lm = LM(DefaultModel)
    /\ providers = <<DefaultModel>> /\ completions = {}
    /\ ctor = (1 :> [cls |-> NewClass, pc |-> "done", arg |-> PyNone,
                      model_name |-> PyStr(DefaultModel), before |-> PyNone,
                      found |-> PyNone, created |-> PyStr(DefaultModel)])
    /\ file_content \in PromptContents /\ instructions \in PromptInstructions
    /\ prompt = <<>>
    /\ frames = <<>> /\ creator = <<>>

\* self.rope_script_generator(content, instr): the prompt is built, the
\* provider is called with it, the response is made a script
Generate(content, instr) ==
    /\ file_content' = content /\ instructions' = instr
    /\ prompt' = build_prompt(content, instr)
    /\ completions' = completions \cup {settings_lm.v}
    /\ lm_calls' = lm_calls + 1
    /\ \E resp \in PromptResponses :
           /\ response' = resp
           /\ outcome' = generate_script(resp)
           /\ script' = IF generate_script(resp).kind = "return"
                        THEN generate_script(resp).value.v ELSE <<>>
    /\ pc' = "prompted"
    /\ UNCHANGED <<file_path, project_path, cwd, installed, dirs, written, files,
                   temp_file_path, module, rel_file_path, invoked, raised, pending,
                   environ, DSPY_AVAILABLE, settings_lm, providers, ctor, threads>>

\* generator(file_content, instructions), called directly
PromptCall ==
    /\ pc = "prompt"
    /\ op' = "rope_script_generator.__call__"
    /\ Generate(file_content, instructions)

\* modify_file: rope_script = self.rope_script_generator(file_content,
\* instructions), file_content being what the file holds
PromptModifyFile ==
    /\ pc = "prompt"
    /\ op' = "modify_file"
    /\ Generate(file_content, instructions)

\* generate_code: rope_script = self.rope_script_generator("", f"Create a new
\* file with: {instructions}")
PromptGenerateCode ==
    /\ pc = "prompt"
    /\ op' = "generate_code"
    /\ Generate(<<>>, CreatePrefix \o <<SP>> \o instructions)

NextPrompt == PromptCall \/ PromptModifyFile \/ PromptGenerateCode

SpecPrompt == InitPrompt /\ [][NextPrompt]_vars

(***************************************************************************)
(* Properties                                                              *)
(***************************************************************************)
\* _execute_rope_script has returned or raised
Exited == pc \in {"exec_exit", "gc_cleanup", "done"} /\ temp_file_path # <<>>

\* _run_script_function has been called and has ended
Dispatched ==
    /\ pc \in {"exec_except", "exec_finally", "exec_exit", "gc_cleanup", "done"}
    /\ rel_file_path # <<>>

RuleNeedles ==
    <<NeedleDef, NeedleSignature, NeedleImport, NeedleProject, NeedleResource,
      NeedleReturn>>
RuleMessages == <<MsgDef, MsgSignature, MsgImport, MsgProject, MsgResource, MsgReturn>>

\* rule i of the contract is violated by the text
Violates(text, i) == ~Contains(text, RuleNeedles[i])

\* the validation error that names rule i
RuleError(i) ==
    Raised(Exc("ValueError",
               <<"Script validation failed: ", "Assertion failed: ">> \o RuleMessages[i],
               "ValueError"))

\* C1: on every exit path of _execute_rope_script (return, load failure,
\* missing entry point, exception of the entry point) the transient script
\* file of the call is gone once the call has returned or raised.
C1_TransientFileRemoved == Exited => temp_file_path \notin DOMAIN files

\* C1 witness: the call has left through a load failure (the script does not
\* compile) and its file is gone
C1_Witness ==
    /\ pc = "exec_exit"
    /\ pending.kind = "raise" /\ raised.type = "SyntaxError"
    /\ temp_file_path \in TmpPaths /\ temp_file_path \notin DOMAIN files

\* C2: _validate_script reports the lowest-numbered violated rule among the
\* six structural rules, whatever other rules the script violates too.
C2_FirstViolatedRuleReported ==
    pc = "validated" =>
        \A i \in 1..6 :
            (Violates(script, i) /\ \A j \in 1..(i - 1) : ~Violates(script, j))
                => outcome = RuleError(i)

\* C2 witness: a script without the entry point and without the Project
\* import is reported with the entry-point rule
C2_Witness ==
    /\ pc = "validated"
    /\ Violates(script, 1) /\ Violates(script, 3)
    /\ outcome = RuleError(1)

\* the rope modules a script imports, in either import form
RopeImports(text) ==
    LET lines == SplitLines(text)
        stmt(l) == IF IsIndented(l) THEN Tail(l) ELSE l
    IN {stmt(lines[k])[3] : k \in {n \in 1..Len(lines) :
                                       \/ IsImportFrom(stmt(lines[n]))
                                       \/ IsImport(stmt(lines[n]))}}

\* C3 as stated: a script passes validation only if every rope import it
\* holds, in whatever import form, names a whitelisted module.
C3_EveryRopeImportWhitelisted ==
    (pc = "validated" /\ outcome.kind = "return")
        => RopeImports(script) \subseteq VALID_ROPE_MODULES

\* a structural rule (1-6, or the import whitelist as the code tests it) is
\* violated
Structural(text) ==
    \/ \E i \in 1..6 : Violates(text, i)
    \/ first_invalid_import(import_matches(text, 1)) # "None"

Parses(text) == compile(text) = NoExc

\* C4: the parse check comes last and fails as a syntax error: a structural
\* violation is reported as a validation failure even if the script does not
\* parse, and a script that only fails to parse is reported as a syntax error.
C4_SyntaxErrorLastAndDistinct ==
    pc = "validated" =>
        /\ Structural(script) =>
               /\ outcome.kind = "raise"
               /\ outcome.exc.msg[1] = "Script validation failed: "
        /\ (~Structural(script) /\ ~Parses(script)) =>
               /\ outcome.kind = "raise"
               /\ outcome.exc.msg[1] = "Script has a syntax error: "

\* C4 witness: a script that satisfies rules 1-7, does not parse, and is
\* reported as a syntax error
C4_Witness ==
    /\ pc = "validated"
    /\ ~Structural(script) /\ ~Parses(script)
    /\ outcome.kind = "raise"
    /\ outcome.exc.msg[1] = "Script has a syntax error: "

\* C5: the dispatcher invokes exactly one entry point, change_function when
\* the module has it and refactor_code only otherwise, with the project path
\* and the resolved relative file path.
C5_OneEntryPointByPriority ==
    (Dispatched /\ module \cap EntryNames # {}) =>
        /\ Len(invoked) = 1
        /\ invoked[1].name = (IF "change_function" \in module
                              THEN "change_function" ELSE "refactor_code")
        /\ invoked[1].args =
               <<project_path.v,
                 _get_relative_path(file_path, project_path.v, cwd).value.v>>

\* C5 witness: a module with both entry points, dispatched through
\* change_function alone
C5_Witness ==
    /\ Dispatched
    /\ EntryNames \subseteq module
    /\ Len(invoked) = 1 /\ invoked[1].name = "change_function"

\* C6: with neither entry point on the module the dispatcher invokes nothing
\* and raises the missing-entry-point ValueError.
C6_MissingEntryPoint ==
    (Dispatched /\ module \cap EntryNames = {}) =>
        /\ invoked = <<>>
        /\ raised = Exc("ValueError", MsgNoEntryPoint, "None")

\* C6 witness: a loaded module without entry points, nothing invoked
C6_Witness ==
    /\ Dispatched
    /\ module \cap EntryNames = {}
    /\ invoked = <<>> /\ raised.msg = MsgNoEntryPoint

\* C7 as stated: an exception raised while loading or dispatching reaches
\* the caller unmodified, as its own error kind.
C7_ErrorKindsPropagateUnmodified ==
    (pc = "done" /\ raised # NoExc) => outcome = Raised(raised)

\* C7 amended: a load failure, a missing entry point and an Exception raised
\* by the entry point all reach the caller as the same kind, the ValueError
\* of _execute_rope_script that names the transient file, with the original
\* exception as its cause and its message as the suffix.
C7_FailuresWrappedAlike ==
    (pc = "done" /\ raised # NoExc) =>
        outcome = Raised(Exc("ValueError",
                             MsgExecPrefix \o temp_file_path \o <<": ">> \o raised.msg,
                             raised.type))

\* C7 witness: modify_file ends in a load failure (rope cannot be imported),
\* seen by the caller as the ValueError of _execute_rope_script
C7_Witness ==
    /\ pc = "done" /\ op = "modify_file"
    /\ raised.type = "ModuleNotFoundError"
    /\ outcome.kind = "raise" /\ outcome.exc.type = "ValueError"
    /\ outcome.exc.cause = "ModuleNotFoundError"

\* the entry point was invoked and the call failed
EntryPointFailed == pc = "done" /\ invoked # <<>> /\ outcome.kind = "raise"

NamesTransientFile(e) ==
    /\ e.type = "ValueError"
    /\ IsPrefix(MsgExecPrefix, e.msg)
    /\ Contains(e.msg, temp_file_path)

\* C8 as stated: any exception raised by the entry point reaches the caller
\* as the ValueError that names the transient file.
C8_AnyEntryPointErrorWrapped == EntryPointFailed => NamesTransientFile(outcome.exc)

\* C8 amended: an exception of the entry point that derives from Exception
\* reaches the caller as the ValueError that names the transient file; one
\* that derives from BaseException only (SystemExit, KeyboardInterrupt) is
\* not caught and reaches the caller as it is.
C8_EntryPointExceptionWrapped ==
    EntryPointFailed =>
        LET e == invoked[1].result.exc IN
        IF IsException(e)
        THEN NamesTransientFile(outcome.exc) /\ outcome.exc.cause = e.type
        ELSE outcome.exc = e

\* C8 witness: the entry point raised RuntimeError and the caller sees the
\* ValueError with the path of the transient file
C8_Witness ==
    /\ EntryPointFailed
    /\ invoked[1].result.exc.type = "RuntimeError"
    /\ NamesTransientFile(outcome.exc)

\* C9: what a present change_function returns is what _execute_rope_script,
\* modify_file and generate_code return, unchanged.
C9_ResultRoundTrip ==
    (/\ pc = "done" /\ invoked # <<>>
     /\ invoked[1].name = "change_function"
     /\ invoked[1].result.kind = "return")
        => outcome = Returned(invoked[1].result.value)

\* C9 witness: modify_file returns the text change_function returned
C9_Witness ==
    /\ pc = "done" /\ op = "modify_file"
    /\ invoked # <<>> /\ invoked[1].name = "change_function"
    /\ invoked[1].result = Returned(PyStr(<<"Modified content">>))
    /\ outcome = Returned(PyStr(<<"Modified content">>))

\* C10 as stated: the relative path file.py resolves to itself for every
\* project root and working directory.
C10_RelativePathUnchanged ==
    (pc = "resolved" /\ file_path = <<"file.py">>)
        => outcome = Returned(PyStr(<<"file.py">>))

\* the file path lies under the project root: same anchoring, and the
\* components of the root begin the components of the file path
Under(fp, pp) ==
    /\ isabs(fp) = isabs(pp)
    /\ IsPrefix(DropDots(Components(pp)), DropDots(Components(fp)))

\* the file path with the project-root prefix removed
PrefixRemoved(fp, pp) ==
    LET rest == SubSeq(DropDots(Components(fp)),
                       Len(DropDots(Components(pp))) + 1,
                       Len(DropDots(Components(fp))))
    IN IF rest = <<>> THEN <<".">> ELSE JoinComponents(rest)

Normalized == pc = "normalized"

\* C12 as stated: a sequence response is normalized to its first element
\* alone, or to the empty string when it has no element.
C12_SequenceYieldsFirstElement ==
    (Normalized /\ response.t = "list") =>
        script = (IF response.v = <<>> THEN <<>> ELSE response.v[1])

\* the text holds a python fence and, later, a closing fence
HasPythonBlock(text) ==
    \E i, j \in 1..Len(text) :
        i < j /\ text[i] = FencePython /\ text[j] \in {Fence, FencePython}

\* the text between the first python fence and the first fence after it,
\* trimmed
BetweenFences(text) ==
    LET i == CHOOSE k \in 1..Len(text) :
                 text[k] = FencePython /\ \A n \in 1..(k - 1) : text[n] # FencePython
        j == CHOOSE k \in (i + 1)..Len(text) :
                 /\ text[k] \in {Fence, FencePython}
                 /\ \A n \in (i + 1)..(k - 1) : text[n] \notin {Fence, FencePython}
    IN Strip(SubSeq(text, i + 1, j - 1))

\* C13 as stated: a string response with a python fence and a later closing
\* fence is normalized to exactly the text between the two markers, trimmed;
\* what stands before the opening fence and after the closing fence is dropped.
C13_FencedBlockExtracted ==
    (Normalized /\ response.t = "str" /\ HasPythonBlock(response.v))
        => script = BetweenFences(response.v)

\* C14 as stated: a response that is neither a string nor a sequence is
\* normalized to the empty string exactly when it is None, and to its string
\* representation otherwise, 0 and False included.
C14_NonTextResponse ==
    (Normalized /\ response.t \notin {"str", "list"}) =>
        script = (IF response = PyNone THEN <<>> ELSE str(response))

\* a string response that is script text: it holds the entry-point definition
\* and no fence
PlainScript(resp) ==
    /\ resp.t = "str"
    /\ Contains(resp.v, NeedleDef)
    /\ \A i \in 1..Len(resp.v) : resp.v[i] \notin {Fence, FencePython}

\* C15 as stated: on fence-free script text the normalizer is the identity,
\* and applying it again changes nothing, whitespace at the ends included.
C15_IdentityOnPlainScript ==
    (Normalized /\ PlainScript(response)) =>
        /\ script = response.v
        /\ _clean_script(script) = script
        /\ _extract_script_from_response(PyStr(script)) = script

\* C15 amended: on fence-free script text the normalizer of the pipeline
\* returns the text with the whitespace at its ends removed, so it is the
\* identity exactly on text that neither begins nor ends with whitespace, and
\* it is idempotent; the earlier normalizer returns the text as it is.
C15_PlainScriptTrimmed ==
    (Normalized /\ PlainScript(response)) =>
        /\ op = "_generate_refactoring_script" =>
               /\ script = Strip(response.v)
               /\ (script = response.v) <=>
                      ~(IsWS(Head(response.v)) \/ IsWS(response.v[Len(response.v)]))
               /\ _clean_script(script) = script
        /\ op = "_extract_script_from_response" =>
               /\ script = response.v
               /\ _extract_script_from_response(PyStr(script)) = script

\* C15 witness: the pipeline's normalizer has removed the newlines a plain
\* script began with
C15_Witness ==
    /\ Normalized /\ op = "_generate_refactoring_script"
    /\ response = PyStr(<<NL, NL>> \o ValidScript)
    /\ script = ValidScript

\* C16: an empty-sequence response is normalized to the empty string, and
\* the call then fails with the validation error (a ValueError) that names
\* the entry-point-definition rule.
C16_EmptySequenceRejected ==
    (op \in {"modify_file", "generate_code"} /\ response = PyList(<<>>)) =>
        /\ _clean_script(to_str(response)) = <<>>
        /\ pc = "done"
        /\ outcome = RuleError(1)
        /\ outcome.exc.type = "ValueError"

\* C16 witness: generate_code got an empty list from the provider and failed
\* with the entry-point-definition validation error
C16_Witness ==
    /\ pc = "done" /\ op = "generate_code"
    /\ response = PyList(<<>>)
    /\ outcome.kind = "raise"
    /\ outcome.exc.msg = <<"Script validation failed: ", "Assertion failed: ">> \o MsgDef

\* what the validator says of each answer of the provider, normalized
Verdict == [r \in Responses |-> _validate_script(_clean_script(to_str(r)))]

\* the provider has answered the running call and the validator rejects the
\* normalized answer
Rejected ==
    /\ op \in {"modify_file", "generate_code"}
    /\ lm_calls >= 1
    /\ Verdict[response].kind = "raise"

\* C17: within one modify_file or generate_code call the provider is called
\* at most once, and once the validator has rejected the script the call has
\* failed with that validation error: no transient script file and no
\* staging directory was created, nothing was loaded, nothing was invoked.
C17_NoRetryNoRegress ==
    /\ lm_calls <= 1
    /\ Rejected =>
           /\ pc = "done"
           /\ outcome = Verdict[response]
           /\ temp_file_path = <<>> /\ DOMAIN files \cap TmpPaths = {}
           /\ dirs = {} /\ DOMAIN files = DOMAIN InitFiles /\ written = {}
           /\ module = {} /\ invoked = <<>>

\* C17 witness: modify_file, one provider call, a script that does not parse:
\* the call is over with the syntax error and nothing else happened
C17_Witness ==
    /\ pc = "done" /\ op = "modify_file"
    /\ Rejected /\ lm_calls = 1
    /\ outcome.exc.msg[1] = "Script has a syntax error: "
    /\ temp_file_path = <<>> /\ invoked = <<>>

\* the files on disk inside directory d
FilesUnder(d) == {f \in DOMAIN files : IsPrefix(d \o <<SEP>>, f)}

\* generate_code is inside its with block: the directory is staged
Staged ==
    /\ op = "generate_code"
    /\ pc \in {"exec_mkstemp", "exec_write", "exec_load", "exec_relpath", "exec_run",
               "exec_except", "exec_finally", "exec_exit", "gc_cleanup"}

\* generate_code has left its with block
Unstaged == op = "generate_code" /\ pc = "done" /\ project_path # PyNone

\* C18: while generate_code executes the script, its staging directory
\* exists and holds exactly one file, the empty placeholder; the entry point
\* is invoked with the staging directory as project path and the placeholder
\* as file; after the call, returned or failed, the directory and what it
\* held are gone.
C18_StagingDirectoryTransient ==
    /\ Staged =>
           /\ project_path.v \in dirs
           /\ file_path = project_path.v \o <<SEP, "generated_code.py">>
           /\ FilesUnder(project_path.v) = {file_path}
           /\ file_path \notin written => files[file_path] = <<>>
    /\ (op = "generate_code" /\ invoked # <<>>) =>
           invoked[1].args = <<project_path.v, <<"generated_code.py">>>>
    /\ Unstaged =>
           /\ outcome = pending
           /\ project_path.v \notin dirs
           /\ FilesUnder(project_path.v) = {}

\* C18 witness: the entry point was run against the placeholder and raised;
\* generate_code has failed and its staging directory is gone
C18_Witness ==
    /\ Unstaged
    /\ project_path.v \in StageDirs
    /\ invoked # <<>> /\ invoked[1].result.kind = "raise"
    /\ outcome.kind = "raise"
    /\ project_path.v \notin dirs /\ FilesUnder(project_path.v) = {}

\* the file modify_file was called for, as the process resolves its path
Target == abspath(file_path, cwd)

\* what the target holds: its content, or nothing when there is no such file
TargetContent == IF Target \in DOMAIN files THEN <<files[Target]>> ELSE <<>>

\* C19: modify_file never writes the file at file_path: as long as the
\* entry point of the generated script has not written the target, every
\* step of the call, up to its return or its failure at any stage, leaves the
\* target with the content (or the absence) it had before.
C19_TargetFileUntouched ==
    [][(op = "modify_file" /\ op' = "modify_file" /\ Target \notin written')
           => TargetContent' = TargetContent]_vars

\* C19 witness: modify_file has run the entry point on the target and
\* returned its result; the target still holds its source text
C19_Witness ==
    /\ pc = "done" /\ op = "modify_file"
    /\ file_path = TargetFile
    /\ invoked # <<>> /\ outcome.kind = "return"
    /\ Target \notin written
    /\ files[TargetFile] = SourceText

\* the absolute directory that holds the file at file_path: the components
\* of its absolute path but the last
ContainingDir ==
    LET parts == abspath_parts(file_path, cwd) IN
    <<SEP>> \o JoinComponents(SubSeq(parts, 1, Len(parts) - 1))

\* C20: in modify_file the project path stays what the caller gave until the
\* script has been generated; then a missing project path becomes the
\* absolute directory that holds file_path and a given one stays as it is;
\* it is not changed again, and it is the first argument of the entry point.
C20_ProjectRootDefault ==
    [][op = "modify_file" =>
           /\ pc = "mf_project" =>
                  project_path' = (IF project_path = PyNone
                                   THEN PyStr(ContainingDir)
                                   ELSE project_path)
           /\ pc \notin {"mf_project", "done"} => project_path' = project_path
           /\ Len(invoked') > Len(invoked) =>
                  /\ pc = "exec_run"
                  /\ invoked'[1].args[1] = project_path.v]_vars

\* C20 witness: modify_file("sub/file.py", ...) without a project path in
\* working directory /proj: the entry point was invoked with /proj/sub
C20_Witness ==
    /\ op = "modify_file"
    /\ file_path = <<"sub", SEP, "file.py">> /\ cwd = <<SEP, "proj">>
    /\ invoked # <<>>
    /\ invoked[1].args[1] = <<SEP, "proj", SEP, "sub">>

(***************************************************************************)
(* The provider binding                                                    *)
(***************************************************************************)
\* the precedence a model identifier is resolved with
Resolved(arg, env) ==
    IF arg # PyNone THEN arg ELSE IF env # PyNone THEN env ELSE PyStr(DefaultModel)

\* C21: a constructor that finds no provider binding binds one, and whatever a
\* constructor binds is the provider of the model resolved with precedence:
\* the explicit argument if given, else the CODEAGENT_MODEL value if set, else
\* the fallback 'openrouter/google/gemini-2.0-flash-001'
C21_ModelPrecedence ==
    \A t \in DOMAIN ctor :
        /\ ctor[t].created # PyNone =>
               /\ ctor[t].created = Resolved(ctor[t].arg, environ)
               /\ \E i \in 1..Len(providers) : providers[i] = ctor[t].created.v
        /\ (ctor[t].pc = "done" /\ ctor[t].found = PyNone) => ctor[t].created # PyNone

\* two constructors have run, one with an explicit model and one without, the
\* environment names a model, and each has bound the model the precedence gives
C21_Witness ==
    /\ environ # PyNone
    /\ \E t \in DOMAIN ctor :
           /\ ctor[t].pc = "done" /\ ctor[t].arg = PyNone
           /\ ctor[t].created = environ /\ settings_lm = LM(environ.v)
    /\ \E t \in DOMAIN ctor :
           ctor[t].pc = "done" /\ ctor[t].arg # PyNone /\ ctor[t].created = ctor[t].arg

\* a construction called with an explicit model has ended, dspy being there
ExplicitDone(t) ==
    /\ DSPY_AVAILABLE
    /\ ctor[t].pc = "done" /\ ctor[t].arg # PyNone

\* C22: a constructor called with an explicit model M leaves the provider for
\* M bound, whatever was bound before: it has bound M itself, or M was the
\* binding it found
C22_ExplicitModelOverrides ==
    \A t \in DOMAIN ctor :
        ExplicitDone(t) =>
            \/ ctor[t].created = ctor[t].arg
            \/ ctor[t].found = LM(ctor[t].arg.v)

Holding(t) == t \in DOMAIN frames /\ frames[t].pc \in {"write", "load", "run", "finally"}

\* C24: under any interleaving of _execute_rope_script calls, every access of
\* a call to a file is to the file its own mkstemp made, no two calls hold
\* the same file name, and from its creation to its deletion by the call the
\* file of a call is on disk, is the call's own, and holds nothing but what
\* the call wrote: no other call has loaded, overwritten or deleted it
C24_OwnTransientFileOnly ==
    /\ \A t \in DOMAIN frames : \A a \in frames[t].accesses :
           a.path = frames[t].temp_file_path /\ a.of = t
    /\ \A t, u \in DOMAIN frames :
           (t # u /\ Holding(t) /\ Holding(u)) =>
               frames[t].temp_file_path # frames[u].temp_file_path
    /\ \A t \in DOMAIN frames :
           Holding(t) =>
               /\ frames[t].temp_file_path \in DOMAIN files
               /\ creator[frames[t].temp_file_path] = t
               /\ files[frames[t].temp_file_path] =
                      (IF frames[t].pc = "write" THEN <<>> ELSE frames[t].script)
    /\ \A t \in DOMAIN frames :
           frames[t].pc = "run" =>
               frames[t].module = exec_module(frames[t].script, installed).attrs

\* two calls run side by side with different scripts: one has loaded its
\* script and is about to delete its file, the other has its script loaded
C24_Witness ==
    \E t, u \in DOMAIN frames :
        /\ t # u
        /\ frames[t].pc = "finally" /\ frames[u].pc = "run"
        /\ frames[t].script # frames[u].script
        /\ frames[t].module # frames[u].module
        /\ Cardinality(frames[t].accesses) = 3

(***************************************************************************)
(* The prompts                                                             *)
(***************************************************************************)
Prompted == pc = "prompted"

\* the rope modules a prompt names
PromptModules(p) == {p[i] : i \in 1..Len(p)} \cap RopeDotted

\* the variant of a prompt
IsNewFilePrompt(p) ==
    Contains(p, <<"Here are the instructions for the code to generate:">>)
IsRefactoringPrompt(p) ==
    Contains(p, <<"Here are the instructions for the refactoring:">>)

\* C25: in both prompt variants the rope modules the prompt names are exactly
\* the validator's whitelist VALID_ROPE_MODULES
C25_PromptListsWhitelist ==
    Prompted => PromptModules(prompt) = VALID_ROPE_MODULES

\* C26: the create-new prompt is built whenever the file content is empty and
\* the modify prompt whenever it is not, modify_file on an empty file and
\* generate_code alike
C26_EmptyContentSelectsCreateNew ==
    Prompted =>
        /\ IsNewFilePrompt(prompt) <=> file_content = <<>>
        /\ IsRefactoringPrompt(prompt) <=> file_content # <<>>

\* C27: a call of the generator of codeagent/dspy_modules.py made while DSPy
\* is unavailable or no provider is bound ends in ImportError or
\* AssertionError, calls no provider and hands back no script
C27_UnboundCallFails ==
    (op = "dspy_modules.__call__" /\ (~DSPY_AVAILABLE \/ settings_lm = PyNone)) =>
        /\ outcome.kind = "raise"
        /\ outcome.exc.type \in {"ImportError", "AssertionError"}
        /\ outcome.value = PyNone /\ script = <<>>
        /\ lm_calls = 0 /\ response = PyNone /\ completions = {}
        /\ prompt = <<>>

C27_Witness ==
    /\ op = "dspy_modules.__call__" /\ ~DSPY_AVAILABLE /\ settings_lm = PyNone
    /\ outcome = Raised(Exc("ImportError",
                            <<"DSPy is required for RopeScriptGenerator">>, "None"))
    /\ lm_calls = 0

\* the constructions of the pipeline's generator that configured the binding
Configurers == {t \in DOMAIN ctor : ctor[t].cls = NewClass /\ ctor[t].created # PyNone}

\* C28: under interleaved construction of generators of
\* rope_script_generator.py the binding is configured at most once: no
\* second constructor replaces a binding another constructor has set, and
\* the binding stays the first model chosen
C28_ConfiguredAtMostOnce == Cardinality(Configurers) <= 1

\* the call ended in the failure of _run_script_function that reports a
\* loaded script without entry point
MissingEntryPoint ==
    /\ pc = "done" /\ outcome.kind = "raise"
    /\ Contains(outcome.exc.msg, MsgNoEntryPoint)

\* C29: a script that passed _validate_script exposes change_function once
\* it is loaded, so no modify_file or generate_code call ends in the
\* missing-entry-point failure
C29_ValidatedExposesEntryPoint ==
    /\ (op \in {"modify_file", "generate_code"} /\ pc = "exec_run")
           => "change_function" \in module
    /\ op \in {"modify_file", "generate_code"} => ~MissingEntryPoint

\* the error the caller has in hand is the ValueError of _execute_rope_script
\* that names the file p
ObservedErrorNames(p) ==
    /\ outcome.kind = "raise" /\ outcome.exc.type = "ValueError"
    /\ IsPrefix(MsgExecPrefix \o p \o <<": ">>, outcome.exc.msg)

\* C30: in every state in which the caller holds the execution error of
\* _execute_rope_script, the transient file the message names is not on disk
\* any more: the finally clause has run before the error is delivered
C30_ErrorObservedAfterDeletion ==
    \A p \in TmpPaths : ObservedErrorNames(p) => p \notin DOMAIN files

\* the caller of modify_file holds the error of a script that loaded without
\* an entry point; the file the message names is the call's and is gone
C30_Witness ==
    /\ pc = "done" /\ op = "modify_file"
    /\ raised = Exc("ValueError", MsgNoEntryPoint, "None")
    /\ temp_file_path \in TmpPaths
    /\ ObservedErrorNames(temp_file_path)
    /\ temp_file_path \notin DOMAIN files

====
